---- MODULE Spec2Model ----
(***************************************************************************)
(* Model of the staking program (programs/staking): one StakingPool        *)
(* account per pool id, one UserStake account per (pool, user), the two    *)
(* pool-owned token vaults, and the five instructions initialize_pool,     *)
(* stake, unstake, claim_rewards and update_pool.                          *)
(*                                                                         *)
(* TLC integers are 32 bits wide, so the numeric constants of the program  *)
(* are scaled down (1e18 -> 100, u64 -> 16 bits, u128 -> 24 bits, ...).    *)
(* The scaling keeps the precision much larger than any amount, and no     *)
(* product of the default specification reaches the integer widths.        *)
(* RATE_PRECISION is scaled to 2 and, as in the source, equals             *)
(* MAX_REWARD_RATE.                                                        *)
(***************************************************************************)
EXTENDS Integers, Sequences, FiniteSets, TLC

\* ------------------------------------------------------------------------
\* Program constants (constants.rs), scaled
\* ------------------------------------------------------------------------
REWARD_PRECISION == 100
RATE_PRECISION == 2
MIN_LOCK_DURATION == 1
MAX_LOCK_DURATION == 2
MIN_STAKE_AMOUNT == 1
MAX_STAKE_AMOUNT == 3
MIN_REWARD_RATE == 1
MAX_REWARD_RATE == 2
\* u64::MAX and u128::MAX, scaled to 16 and 24 bits
U64_MAX == 65535
U128_MAX == 16777215

\* ------------------------------------------------------------------------
\* Bounds of the model
\* ------------------------------------------------------------------------
MaxTime == 3
\* Pools are created no later than this time
MaxPoolCreationTime == 0
MaxFunding == 4
InitialBalance == 4

USERS == {"alice", "bob"}
POOLS == {1, 2}
\* Values of the first eight bytes of a pool account's address, read as a
\* little-endian u64. The address is a hash of the seeds, so the prefix is
\* unrelated to the pool id: 0 stands for any value that differs from the
\* pool id, p for the one value that coincides with it.
PoolKeyPrefixes(p) == {0, p}
\* The pools the default specification creates
SPEC_POOLS == {1}
\* Below the range, its upper end, above the range
REWARD_RATES == {MIN_REWARD_RATE - 1, MAX_REWARD_RATE, MAX_REWARD_RATE + 1}
LOCK_DURATIONS == (MIN_LOCK_DURATION - 1)..(MAX_LOCK_DURATION + 1)
\* Below the range, its two ends, above the range
STAKE_AMOUNTS == {MIN_STAKE_AMOUNT - 1, MIN_STAKE_AMOUNT, MAX_STAKE_AMOUNT, MAX_STAKE_AMOUNT + 1}
FUND_AMOUNTS == {MaxFunding}
STAKE_ACCOUNTS == POOLS \X USERS

VARIABLES
    clock,              \* Clock::get()?.unix_timestamp
    pool,               \* pool id -> StakingPool account
    pool_key8,          \* pool id -> first eight bytes of the account address
    user_stake,         \* <<pool id, user>> -> UserStake account (PDA)
    user_token,         \* user -> balance of the user's stake-mint account
    stake_vault,        \* pool id -> balance of the stake vault
    reward_vault,       \* pool id -> balance of the reward vault
    reward_funded,      \* pool id -> cumulative deposits into the reward vault
    reward_paid,        \* pool id -> cumulative transfers out of the reward vault
    inflight,           \* user -> the user's transaction that is being executed
    query,              \* the last call of a public helper function and its result
    staked_time         \* pool id -> seconds during which total_staked > 0 (history)

vars == <<clock, pool, pool_key8, user_stake, user_token,
          stake_vault, reward_vault, reward_funded, reward_paid, inflight, query,
          staked_time>>

\* The accounts a transaction may write; a failed transaction rolls them back.
ledger == <<pool, user_stake, user_token, stake_vault, reward_vault>>

\* ------------------------------------------------------------------------
\* Account types (state.rs)
\* ------------------------------------------------------------------------
NoPool ==
    [initialized |-> FALSE, reward_rate |-> 0, total_staked |-> 0,
     last_update_time |-> 0, reward_per_token_stored |-> 0,
     lock_duration |-> 0, is_active |-> FALSE]

\* A closed (or never created) UserStake account: no data.
NoStake ==
    [initialized |-> FALSE, user |-> "none", pool |-> 0, amount |-> 0,
     reward_per_token_paid |-> 0, rewards |-> 0, stake_time |-> 0,
     unlock_time |-> 0, is_active |-> FALSE]


\* ------------------------------------------------------------------------
\* Checked integer arithmetic (Option<u128> / Option<u64>)
\* ------------------------------------------------------------------------
None == -1

checked_mul(a, b, max) ==
    IF a = None \/ b = None THEN None
    ELSE IF a # 0 /\ b > max \div a THEN None
    ELSE a * b

checked_add(a, b, max) ==
    IF a = None \/ b = None THEN None
    ELSE IF a > max - b THEN None
    ELSE a + b

checked_sub(a, b) ==
    IF a = None \/ b = None THEN None
    ELSE IF a < b THEN None
    ELSE a - b

checked_div(a, b) ==
    IF a = None \/ b = None THEN None
    ELSE IF b = 0 THEN None
    ELSE a \div b

unwrap_or(x, default) == IF x = None THEN default ELSE x

\* `x as u128` of an i64: a negative value sign-extends
as_u128(x) == IF x < 0 THEN U128_MAX + 1 + x ELSE x

\* `x as u64` of a u128: truncation
as_u64(x) == x % (U64_MAX + 1)

\* ------------------------------------------------------------------------
\* constants.rs
\* ------------------------------------------------------------------------
is_valid_lock_duration(duration) ==
    duration >= MIN_LOCK_DURATION /\ duration <= MAX_LOCK_DURATION

is_valid_stake_amount(amount) ==
    amount >= MIN_STAKE_AMOUNT /\ amount <= MAX_STAKE_AMOUNT

is_valid_reward_rate(rate) ==
    rate >= MIN_REWARD_RATE /\ rate <= MAX_REWARD_RATE

\* apr_to_reward_rate and reward_rate_to_apr with the constants of the source:
\* RATE_PRECISION = 10^9 and seconds_per_year = 31,536,000. Both functions
\* divide a product by these two numbers, one above and one below the line,
\* so dividing both by their greatest common divisor 16,000 leaves every
\* quotient as it is and keeps the products within the integers of the checker.
\* For apr_percent <= 100 no product of the source reaches 2^64, so checked_mul
\* never yields None.
APR_RATE_PRECISION == 1000000000
seconds_per_year == 365 * 24 * 60 * 60
AprCommonDivisor == 16000

apr_to_reward_rate(apr_percent) ==
    ((apr_percent * (APR_RATE_PRECISION \div AprCommonDivisor)) \div 100)
        \div (seconds_per_year \div AprCommonDivisor)

reward_rate_to_apr(reward_rate) ==
    ((reward_rate * (seconds_per_year \div AprCommonDivisor)) * 100)
        \div (APR_RATE_PRECISION \div AprCommonDivisor)

\* error.rs: the timestamp is compared with the clock it was read from
validate_timestamp(timestamp, current_time) ==
    LET one_year == 365 * 24 * 60 * 60
    IN IF timestamp < current_time - one_year \/ timestamp > current_time + one_year
       THEN "InvalidTimestamp"
       ELSE "Ok"

\* ------------------------------------------------------------------------
\* state.rs: StakingPool and UserStake methods
\* ------------------------------------------------------------------------
calculate_reward_per_token_unstored(p, current_time) ==
    IF p.total_staked = 0 THEN p.reward_per_token_stored
    ELSE LET time_elapsed == as_u128(current_time - p.last_update_time)
         IN unwrap_or(checked_div(checked_mul(checked_mul(p.reward_rate, time_elapsed, U128_MAX),
                                              REWARD_PRECISION, U128_MAX),
                                  p.total_staked), 0)

calculate_reward_per_token_empty_accrues(p, current_time) ==
    LET time_elapsed == as_u128(current_time - p.last_update_time)
        staked == IF p.total_staked = 0 THEN 1 ELSE p.total_staked
        additional_reward_per_token ==
            unwrap_or(checked_div(checked_mul(checked_mul(p.reward_rate, time_elapsed, U128_MAX),
                                              REWARD_PRECISION, U128_MAX),
                                  staked), 0)
    IN unwrap_or(checked_add(p.reward_per_token_stored, additional_reward_per_token, U128_MAX),
                 p.reward_per_token_stored)

calculate_reward_per_token(p, current_time) ==
    IF p.total_staked = 0 THEN p.reward_per_token_stored
    ELSE LET time_elapsed == as_u128(current_time - p.last_update_time)
             additional_reward_per_token ==
                 unwrap_or(checked_div(checked_mul(checked_mul(p.reward_rate, time_elapsed, U128_MAX),
                                                   REWARD_PRECISION, U128_MAX),
                                       p.total_staked), 0)
         IN unwrap_or(checked_add(p.reward_per_token_stored, additional_reward_per_token, U128_MAX),
                      p.reward_per_token_stored)

can_stake(p, current_time) == p.is_active

calculate_pending_rewards_round_up(s, current_reward_per_token) ==
    LET reward_per_token_diff ==
            unwrap_or(checked_sub(current_reward_per_token, s.reward_per_token_paid), 0)
        new_rewards ==
            as_u64(unwrap_or(checked_div(checked_add(checked_mul(s.amount, reward_per_token_diff,
                                                                 U128_MAX),
                                                     REWARD_PRECISION - 1, U128_MAX),
                                         REWARD_PRECISION), 0))
    IN unwrap_or(checked_add(s.rewards, new_rewards, U64_MAX), s.rewards)

calculate_pending_rewards(s, current_reward_per_token) ==
    LET reward_per_token_diff ==
            unwrap_or(checked_sub(current_reward_per_token, s.reward_per_token_paid), 0)
        new_rewards ==
            as_u64(unwrap_or(checked_div(checked_mul(s.amount, reward_per_token_diff, U128_MAX),
                                         REWARD_PRECISION), 0))
    IN unwrap_or(checked_add(s.rewards, new_rewards, U64_MAX), s.rewards)

can_unstake_unlocked(s, current_time) == s.is_active

can_unstake(s, current_time) == s.is_active /\ current_time >= s.unlock_time

\* ------------------------------------------------------------------------
\* The accounts of a transaction, and the result of a handler
\* ------------------------------------------------------------------------
World ==
    [pool |-> pool, pool_key8 |-> pool_key8, user_stake |-> user_stake,
     user_token |-> user_token,
     stake_vault |-> stake_vault, reward_vault |-> reward_vault]

\* Result<T>: err = "Ok" carries the accounts as written so far and the value
Return(e, w, v) == [err |-> e, w |-> w, val |-> v]

\* The PDA that signs for the vaults is derived from
\* [POOL_SEED, authority, <8 bytes>, bump]. initialize_pool derives the pool
\* address with pool_id.to_le_bytes() as the 8 bytes; the transfers out of the
\* vaults pass pool.key().to_bytes()[..8]. The derived signer is the pool (the
\* vaults' authority) only when the two byte strings are equal.
pool_id_seed(p) == p

vault_signer_seed(w, p) == w.pool_key8[p]

signer_is_vault_authority(w, p) == vault_signer_seed(w, p) = pool_id_seed(p)

\* ------------------------------------------------------------------------
\* instructions/initialize_pool.rs
\* ------------------------------------------------------------------------
validate_parameters_rate_only(reward_rate, lock_duration) ==
    IF ~is_valid_reward_rate(reward_rate) THEN "InvalidRewardRate" ELSE "Ok"

validate_parameters(reward_rate, lock_duration) ==
    IF ~is_valid_reward_rate(reward_rate) THEN "InvalidRewardRate"
    ELSE IF ~is_valid_lock_duration(lock_duration) THEN "InvalidLockDuration"
    ELSE "Ok"

\* #[account(init, seeds = [POOL_SEED, authority, pool_id])]
InitializePoolAccounts(w, p) ==
    IF w.pool[p].initialized THEN "AccountAlreadyInUse" ELSE "Ok"

initialize_pool(w, p, reward_rate, lock_duration, current_time) ==
    LET e == validate_parameters(reward_rate, lock_duration)
    IN IF e # "Ok" THEN Return(e, w, 0)
       ELSE Return("Ok",
                   [w EXCEPT !.pool[p] =
                       [initialized |-> TRUE, reward_rate |-> reward_rate,
                        total_staked |-> 0, last_update_time |-> current_time,
                        reward_per_token_stored |-> 0,
                        lock_duration |-> lock_duration, is_active |-> TRUE]],
                   0)

\* ------------------------------------------------------------------------
\* update_pool_rewards: the same body in stake.rs, unstake.rs, claim_rewards.rs
\* ------------------------------------------------------------------------
update_pool_rewards_keep_time(w, p, current_time) ==
    [w EXCEPT !.pool[p].reward_per_token_stored =
                  calculate_reward_per_token(w.pool[p], current_time)]

update_pool_rewards(w, p, current_time) ==
    [w EXCEPT !.pool[p].reward_per_token_stored =
                  calculate_reward_per_token(w.pool[p], current_time),
              !.pool[p].last_update_time = current_time]

\* ------------------------------------------------------------------------
\* instructions/stake.rs
\* ------------------------------------------------------------------------
\* Account constraints of Stake, in declaration order; user_stake is `init`
StakeAccounts_init_if_needed(w, p, u) ==
    IF ~w.pool[p].initialized THEN "AccountNotInitialized"
    ELSE IF ~w.pool[p].is_active THEN "PoolNotActive"
    ELSE "Ok"

StakeAccounts(w, p, u) ==
    IF ~w.pool[p].initialized THEN "AccountNotInitialized"
    ELSE IF ~w.pool[p].is_active THEN "PoolNotActive"
    ELSE IF w.user_stake[<<p, u>>].initialized THEN "AccountAlreadyInUse"
    ELSE "Ok"

validate_stake_balance_first(w, p, u, amount, current_time) ==
    IF ~can_stake(w.pool[p], current_time) THEN "PoolNotActive"
    ELSE IF w.user_token[u] < amount THEN "InsufficientBalance"
    ELSE IF ~is_valid_stake_amount(amount)
         THEN (IF amount < MIN_STAKE_AMOUNT THEN "StakeAmountTooSmall"
               ELSE "StakeAmountTooLarge")
    ELSE validate_timestamp(current_time, current_time)

validate_stake(w, p, u, amount, current_time) ==
    IF ~can_stake(w.pool[p], current_time) THEN "PoolNotActive"
    ELSE IF ~is_valid_stake_amount(amount)
         THEN (IF amount < MIN_STAKE_AMOUNT THEN "StakeAmountTooSmall"
               ELSE "StakeAmountTooLarge")
    ELSE IF w.user_token[u] < amount THEN "InsufficientBalance"
    ELSE validate_timestamp(current_time, current_time)

initialize_user_stake_zero_checkpoint(w, p, u, amount, current_time) ==
    [w EXCEPT !.user_stake[<<p, u>>] =
        [initialized |-> TRUE, user |-> u, pool |-> p, amount |-> amount,
         reward_per_token_paid |-> 0,
         rewards |-> 0, stake_time |-> current_time,
         unlock_time |-> current_time + w.pool[p].lock_duration,
         is_active |-> TRUE]]

initialize_user_stake_stored_reward(w, p, u, amount, current_time) ==
    [w EXCEPT !.user_stake[<<p, u>>] =
        [initialized |-> TRUE, user |-> u, pool |-> p, amount |-> amount,
         reward_per_token_paid |-> w.pool[p].reward_per_token_stored,
         rewards |-> 1, stake_time |-> current_time,
         unlock_time |-> current_time + w.pool[p].lock_duration,
         is_active |-> TRUE]]

initialize_user_stake_inherit_checkpoint(w, p, u, amount, current_time) ==
    [w EXCEPT !.user_stake[<<p, u>>] =
        [initialized |-> TRUE, user |-> u, pool |-> p, amount |-> amount,
         reward_per_token_paid |-> w.user_stake[<<p, u>>].reward_per_token_paid,
         rewards |-> 0, stake_time |-> current_time,
         unlock_time |-> current_time + w.pool[p].lock_duration,
         is_active |-> TRUE]]

initialize_user_stake(w, p, u, amount, current_time) ==
    [w EXCEPT !.user_stake[<<p, u>>] =
        [initialized |-> TRUE, user |-> u, pool |-> p, amount |-> amount,
         reward_per_token_paid |-> w.pool[p].reward_per_token_stored,
         rewards |-> 0, stake_time |-> current_time,
         unlock_time |-> current_time + w.pool[p].lock_duration,
         is_active |-> TRUE]]

transfer_tokens_to_vault_uncredited(w, p, u, amount) ==
    IF w.user_token[u] < amount THEN Return("TokenInsufficientFunds", w, 0)
    ELSE Return("Ok", [w EXCEPT !.user_token[u] = @ - amount], 0)

\* token::transfer signed by the user
transfer_tokens_to_vault(w, p, u, amount) ==
    IF w.user_token[u] < amount THEN Return("TokenInsufficientFunds", w, 0)
    ELSE Return("Ok",
                [w EXCEPT !.user_token[u] = @ - amount,
                          !.stake_vault[p] = @ + amount],
                0)

stake_update_pool_state(w, p, amount, current_time) ==
    LET total == checked_add(w.pool[p].total_staked, amount, U64_MAX)
    IN IF total = None THEN Return("MathOverflow", w, 0)
       ELSE Return("Ok",
                   [w EXCEPT !.pool[p].total_staked = total,
                             !.pool[p].last_update_time = current_time],
                   0)

stake_unsettled(w, p, u, amount, current_time) ==
    LET e1 == validate_stake(w, p, u, amount, current_time)
    IN IF e1 # "Ok" THEN Return(e1, w, 0)
       ELSE LET w3 == initialize_user_stake(w, p, u, amount, current_time)
                r4 == transfer_tokens_to_vault(w3, p, u, amount)
            IN IF r4.err # "Ok" THEN r4
               ELSE LET r5 == stake_update_pool_state(r4.w, p, amount, current_time)
                    IN IF r5.err # "Ok" THEN r5
                       ELSE Return("Ok", update_pool_rewards(r5.w, p, current_time), 0)

stake(w, p, u, amount, current_time) ==
    LET e1 == validate_stake(w, p, u, amount, current_time)
    IN IF e1 # "Ok" THEN Return(e1, w, 0)
       ELSE LET w2 == update_pool_rewards(w, p, current_time)
                w3 == initialize_user_stake(w2, p, u, amount, current_time)
                r4 == transfer_tokens_to_vault(w3, p, u, amount)
            IN IF r4.err # "Ok" THEN r4
               ELSE stake_update_pool_state(r4.w, p, amount, current_time)

\* What the program reports to the staker as the reward to expect
calculate_estimated_rewards(stake_amount, reward_rate, time_period_seconds) ==
    as_u64(unwrap_or(checked_div(checked_mul(checked_mul(stake_amount, reward_rate, U128_MAX),
                                             as_u128(time_period_seconds), U128_MAX),
                                 RATE_PRECISION), 0))

\* ------------------------------------------------------------------------
\* instructions/unstake.rs
\* ------------------------------------------------------------------------
\* Account constraints of Unstake; a is the address of the user_stake account
UnstakeAccounts_any_pool(w, s, p, a) ==
    IF ~w.pool[p].initialized THEN "AccountNotInitialized"
    ELSE IF ~w.user_stake[a].initialized THEN "AccountNotInitialized"
    ELSE IF w.user_stake[a].user # s THEN "InvalidAccount"
    ELSE IF ~w.user_stake[a].is_active THEN "InactiveStake"
    ELSE "Ok"

UnstakeAccounts_any_signer(w, s, p, a) ==
    IF ~w.pool[p].initialized THEN "AccountNotInitialized"
    ELSE IF ~w.user_stake[a].initialized THEN "AccountNotInitialized"
    ELSE IF w.user_stake[a].pool # p THEN "InvalidAccount"
    ELSE IF ~w.user_stake[a].is_active THEN "InactiveStake"
    ELSE "Ok"

UnstakeAccounts_active_pool(w, s, p, a) ==
    IF ~w.pool[p].initialized THEN "AccountNotInitialized"
    ELSE IF ~w.pool[p].is_active THEN "PoolNotActive"
    ELSE IF ~w.user_stake[a].initialized THEN "AccountNotInitialized"
    ELSE IF w.user_stake[a].user # s THEN "InvalidAccount"
    ELSE IF w.user_stake[a].pool # p THEN "InvalidAccount"
    ELSE IF ~w.user_stake[a].is_active THEN "InactiveStake"
    ELSE "Ok"

UnstakeAccounts(w, s, p, a) ==
    IF ~w.pool[p].initialized THEN "AccountNotInitialized"
    ELSE IF ~w.user_stake[a].initialized THEN "AccountNotInitialized"
    ELSE IF w.user_stake[a].user # s THEN "InvalidAccount"
    ELSE IF w.user_stake[a].pool # p THEN "InvalidAccount"
    ELSE IF ~w.user_stake[a].is_active THEN "InactiveStake"
    ELSE "Ok"

validate_unstake(w, a, current_time) ==
    IF ~w.user_stake[a].is_active THEN "InactiveStake"
    ELSE IF ~can_unstake(w.user_stake[a], current_time) THEN "StakeStillLocked"
    ELSE IF w.user_stake[a].amount = 0 THEN "CannotUnstakeZero"
    ELSE validate_timestamp(current_time, current_time)

calculate_final_rewards(w, p, a) ==
    LET pending_rewards ==
            calculate_pending_rewards(w.user_stake[a], w.pool[p].reward_per_token_stored)
        total_rewards == checked_add(w.user_stake[a].rewards, pending_rewards, U64_MAX)
    IN IF total_rewards = None THEN Return("RewardCalculationOverflow", w, 0)
       ELSE Return("Ok",
                   [w EXCEPT !.user_stake[a].rewards = total_rewards,
                             !.user_stake[a].reward_per_token_paid =
                                 w.pool[p].reward_per_token_stored],
                   total_rewards)

transfer_staked_tokens(w, s, p, amount) ==
    IF w.stake_vault[p] < amount THEN Return("InsufficientTokenBalance", w, 0)
    ELSE IF ~signer_is_vault_authority(w, p) THEN Return("UnauthorizedSigner", w, 0)
    ELSE Return("Ok",
                [w EXCEPT !.stake_vault[p] = @ - amount,
                          !.user_token[s] = @ + amount],
                amount)

\* the same body in unstake.rs and claim_rewards.rs. The tokens leave the reward
\* vault for the signer's reward-mint account, which the model does not keep:
\* the amount credited is the value returned.
transfer_reward_tokens(w, s, p, amount) ==
    IF amount = 0 THEN Return("Ok", w, 0)
    ELSE IF w.reward_vault[p] < amount THEN Return("InsufficientRewardTokens", w, 0)
    ELSE IF ~signer_is_vault_authority(w, p) THEN Return("UnauthorizedSigner", w, 0)
    ELSE Return("Ok",
                [w EXCEPT !.reward_vault[p] = @ - amount],
                amount)

unstake_update_pool_state_keep_total(w, p, stake_amount, current_time) ==
    Return("Ok", [w EXCEPT !.pool[p].last_update_time = current_time], 0)

unstake_update_pool_state(w, p, stake_amount, current_time) ==
    LET total == checked_sub(w.pool[p].total_staked, stake_amount)
    IN IF total = None THEN Return("MathOverflow", w, 0)
       ELSE Return("Ok",
                   [w EXCEPT !.pool[p].total_staked = total,
                             !.pool[p].last_update_time = current_time],
                   0)

\* The value of a successful unstake is <<principal paid, reward paid>>
unstake(w, s, p, a, current_time) ==
    LET e1 == validate_unstake(w, a, current_time)
    IN IF e1 # "Ok" THEN Return(e1, w, <<0, 0>>)
       ELSE LET w2 == update_pool_rewards(w, p, current_time)
                r3 == calculate_final_rewards(w2, p, a)
            IN IF r3.err # "Ok" THEN Return(r3.err, r3.w, <<0, 0>>)
               ELSE LET final_rewards == r3.val
                        stake_amount == r3.w.user_stake[a].amount
                        r4 == transfer_staked_tokens(r3.w, s, p, stake_amount)
                    IN IF r4.err # "Ok" THEN Return(r4.err, r4.w, <<0, 0>>)
                       ELSE LET r5 == IF final_rewards > 0
                                      THEN transfer_reward_tokens(r4.w, s, p, final_rewards)
                                      ELSE Return("Ok", r4.w, 0)
                            IN IF r5.err # "Ok" THEN Return(r5.err, r5.w, <<stake_amount, 0>>)
                               ELSE LET r6 == unstake_update_pool_state(r5.w, p, stake_amount,
                                                                        current_time)
                                    IN Return(r6.err, r6.w, <<stake_amount, final_rewards>>)

close_user_stake_keep(w, a) == w

\* #[account(close = user)]: on success the account is closed at exit
close_user_stake(w, a) == [w EXCEPT !.user_stake[a] = NoStake]

\* ------------------------------------------------------------------------
\* instructions/claim_rewards.rs
\* ------------------------------------------------------------------------
ClaimRewardsAccounts_any_signer(w, s, p, a) ==
    IF ~w.pool[p].initialized THEN "AccountNotInitialized"
    ELSE IF ~w.user_stake[a].initialized THEN "AccountNotInitialized"
    ELSE IF w.user_stake[a].pool # p THEN "InvalidAccount"
    ELSE IF ~w.user_stake[a].is_active THEN "InactiveStake"
    ELSE "Ok"

ClaimRewardsAccounts(w, s, p, a) ==
    IF ~w.pool[p].initialized THEN "AccountNotInitialized"
    ELSE IF ~w.user_stake[a].initialized THEN "AccountNotInitialized"
    ELSE IF w.user_stake[a].user # s THEN "InvalidAccount"
    ELSE IF w.user_stake[a].pool # p THEN "InvalidAccount"
    ELSE IF ~w.user_stake[a].is_active THEN "InactiveStake"
    ELSE "Ok"

validate_claim(w, a, current_time) ==
    IF ~w.user_stake[a].is_active THEN "InactiveStake"
    ELSE IF w.user_stake[a].amount = 0 THEN "NoActiveStake"
    ELSE validate_timestamp(current_time, current_time)

calculate_claimable_rewards(w, p, a) ==
    LET pending_rewards ==
            calculate_pending_rewards(w.user_stake[a], w.pool[p].reward_per_token_stored)
        total_claimable == checked_add(w.user_stake[a].rewards, pending_rewards, U64_MAX)
    IN IF total_claimable = None THEN Return("RewardCalculationOverflow", w, 0)
       ELSE Return("Ok", w, total_claimable)

update_user_reward_tracking_keep_checkpoint(w, p, a, claimed_amount) ==
    [w EXCEPT !.user_stake[a].rewards = 0]

update_user_reward_tracking_ahead(w, p, a, claimed_amount) ==
    [w EXCEPT !.user_stake[a].rewards = 0,
              !.user_stake[a].reward_per_token_paid = w.pool[p].reward_per_token_stored + 1]

update_user_reward_tracking_relock(w, p, a, claimed_amount) ==
    [w EXCEPT !.user_stake[a].rewards = 0,
              !.user_stake[a].reward_per_token_paid = w.pool[p].reward_per_token_stored,
              !.user_stake[a].unlock_time =
                  w.pool[p].last_update_time + w.pool[p].lock_duration]

update_user_reward_tracking(w, p, a, claimed_amount) ==
    [w EXCEPT !.user_stake[a].rewards = 0,
              !.user_stake[a].reward_per_token_paid = w.pool[p].reward_per_token_stored]

claim_rewards_no_rewards_error(w, s, p, a, current_time) ==
    LET e1 == validate_claim(w, a, current_time)
    IN IF e1 # "Ok" THEN Return(e1, w, 0)
       ELSE LET w2 == update_pool_rewards(w, p, current_time)
                r3 == calculate_claimable_rewards(w2, p, a)
            IN IF r3.err # "Ok" THEN r3
               ELSE IF r3.val = 0 THEN Return("NoRewardsAvailable", r3.w, 0)
               ELSE LET r4 == transfer_reward_tokens(r3.w, s, p, r3.val)
                    IN IF r4.err # "Ok" THEN r4
                       ELSE Return("Ok", update_user_reward_tracking(r4.w, p, a, r3.val),
                                   r3.val)

\* The value of a successful claim is the reward paid
claim_rewards(w, s, p, a, current_time) ==
    LET e1 == validate_claim(w, a, current_time)
    IN IF e1 # "Ok" THEN Return(e1, w, 0)
       ELSE LET w2 == update_pool_rewards(w, p, current_time)
                r3 == calculate_claimable_rewards(w2, p, a)
            IN IF r3.err # "Ok" THEN r3
               ELSE LET claimable_rewards == r3.val
                        r4 == IF claimable_rewards > 0
                              THEN transfer_reward_tokens(r3.w, s, p, claimable_rewards)
                              ELSE Return("Ok", r3.w, 0)
                    IN IF r4.err # "Ok" THEN r4
                       ELSE Return("Ok",
                                   update_user_reward_tracking(r4.w, p, a, claimable_rewards),
                                   claimable_rewards)

\* claim_rewards.rs, pub fn calculate_pending_rewards(user_stake, pool,
\* current_time): the free function of the module, not the method of UserStake
claim_rewards_calculate_pending_rewards(user_stake_account, pool_account, current_time) ==
    LET current_reward_per_token == calculate_reward_per_token(pool_account, current_time)
        pending == calculate_pending_rewards(user_stake_account, current_reward_per_token)
    IN user_stake_account.rewards + pending

has_claimable_rewards(user_stake_account, pool_account, current_time) ==
    LET total_rewards ==
            claim_rewards_calculate_pending_rewards(user_stake_account, pool_account,
                                                    current_time)
    IN total_rewards > 0

\* ------------------------------------------------------------------------
\* instructions/update_pool.rs
\* ------------------------------------------------------------------------
UpdatePoolAccounts(w, p) ==
    IF ~w.pool[p].initialized THEN "AccountNotInitialized"
    ELSE IF ~w.pool[p].is_active THEN "PoolNotActive"
    ELSE "Ok"

validate_update_rejects_empty(w, p, current_time) ==
    IF ~w.pool[p].is_active THEN "PoolNotActive"
    ELSE IF validate_timestamp(current_time, current_time) # "Ok" THEN "InvalidTimestamp"
    ELSE IF current_time - w.pool[p].last_update_time < 0 THEN "InvalidTimestamp"
    ELSE IF w.pool[p].total_staked = 0 THEN "NoRewardsAvailable"
    ELSE "Ok"

validate_update(w, p, current_time) ==
    IF ~w.pool[p].is_active THEN "PoolNotActive"
    ELSE IF validate_timestamp(current_time, current_time) # "Ok" THEN "InvalidTimestamp"
    ELSE IF current_time - w.pool[p].last_update_time < 0 THEN "InvalidTimestamp"
    ELSE "Ok"

update_pool_keep_time(w, p, current_time) ==
    LET e1 == validate_update(w, p, current_time)
    IN IF e1 # "Ok" THEN Return(e1, w, 0)
       ELSE Return("Ok",
                   [w EXCEPT !.pool[p].reward_per_token_stored =
                                 calculate_reward_per_token(w.pool[p], current_time)],
                   0)

update_pool_recount(w, p, current_time) ==
    LET e1 == validate_update(w, p, current_time)
    IN IF e1 # "Ok" THEN Return(e1, w, 0)
       ELSE Return("Ok",
                   [w EXCEPT !.pool[p].reward_per_token_stored =
                                 calculate_reward_per_token(w.pool[p], current_time),
                             !.pool[p].last_update_time = current_time,
                             !.pool[p].total_staked = w.stake_vault[p] + w.reward_vault[p]],
                   0)

update_pool(w, p, current_time) ==
    LET e1 == validate_update(w, p, current_time)
    IN IF e1 # "Ok" THEN Return(e1, w, 0)
       ELSE Return("Ok",
                   [w EXCEPT !.pool[p].reward_per_token_stored =
                                 calculate_reward_per_token(w.pool[p], current_time),
                             !.pool[p].last_update_time = current_time],
                   0)

\* ------------------------------------------------------------------------
\* Transactions. The runtime checks the account constraints, runs the handler
\* and, when the handler returns Err, discards every account write.
\* ------------------------------------------------------------------------
CommitAlways(w, r) == r.w

Commit(w, r) == IF r.err = "Ok" THEN r.w ELSE w

InitializePoolTx(w, p, reward_rate, lock_duration, current_time) ==
    LET c == InitializePoolAccounts(w, p)
    IN IF c # "Ok" THEN Return(c, w, 0)
       ELSE initialize_pool(w, p, reward_rate, lock_duration, current_time)

StakeTx(w, u, p, amount, current_time) ==
    LET c == StakeAccounts(w, p, u)
    IN IF c # "Ok" THEN Return(c, w, 0)
       ELSE stake(w, p, u, amount, current_time)

UnstakeTx(w, s, p, a, current_time) ==
    LET c == UnstakeAccounts(w, s, p, a)
    IN IF c # "Ok" THEN Return(c, w, <<0, 0>>)
       ELSE LET h == unstake(w, s, p, a, current_time)
            IN IF h.err = "Ok" THEN Return("Ok", close_user_stake(h.w, a), h.val)
               ELSE h

ClaimRewardsTx(w, s, p, a, current_time) ==
    LET c == ClaimRewardsAccounts(w, s, p, a)
    IN IF c # "Ok" THEN Return(c, w, 0)
       ELSE claim_rewards(w, s, p, a, current_time)

UpdatePoolTx(w, p, current_time) ==
    LET c == UpdatePoolAccounts(w, p)
    IN IF c # "Ok" THEN Return(c, w, 0)
       ELSE update_pool(w, p, current_time)

Install(w) ==
    /\ pool' = w.pool
    /\ pool_key8' = w.pool_key8
    /\ user_stake' = w.user_stake
    /\ user_token' = w.user_token
    /\ stake_vault' = w.stake_vault
    /\ reward_vault' = w.reward_vault

\* The accounts before any pool exists
Genesis ==
    [pool |-> [p \in POOLS |-> NoPool], pool_key8 |-> [p \in POOLS |-> 0],
     user_stake |-> [a \in STAKE_ACCOUNTS |-> NoStake],
     user_token |-> [u \in USERS |-> InitialBalance],
     stake_vault |-> [p \in POOLS |-> 0], reward_vault |-> [p \in POOLS |-> 0]]

\* No transaction of the user is being executed
Idle == [busy |-> FALSE]

\* No helper function has been called
NoQuery == [fn |-> "none"]

Init ==
    /\ clock = 0
    /\ pool = [p \in POOLS |-> NoPool]
    /\ pool_key8 = [p \in POOLS |-> 0]
    /\ user_stake = [a \in STAKE_ACCOUNTS |-> NoStake]
    /\ user_token = [u \in USERS |-> InitialBalance]
    /\ stake_vault = [p \in POOLS |-> 0]
    /\ reward_vault = [p \in POOLS |-> 0]
    /\ reward_funded = [p \in POOLS |-> 0]
    /\ reward_paid = [p \in POOLS |-> 0]
    /\ inflight = [u \in USERS |-> Idle]
    /\ query = NoQuery
    /\ staked_time = [p \in POOLS |-> 0]

\* The clock provider: non-decreasing
Tick ==
    /\ clock < MaxTime
    /\ clock' = clock + 1
    /\ UNCHANGED <<staked_time, ledger, pool_key8, reward_funded, reward_paid, inflight, query>>

\* The authority deposits reward tokens into the reward vault (an SPL transfer
\* made outside the program)
FundRewardVault(p, amount) ==
    /\ pool[p].initialized
    /\ reward_funded[p] + amount <= MaxFunding
    /\ reward_vault' = [reward_vault EXCEPT ![p] = @ + amount]
    /\ reward_funded' = [reward_funded EXCEPT ![p] = @ + amount]
    /\ UNCHANGED <<staked_time, clock, pool, pool_key8, user_stake, user_token, stake_vault, reward_paid,
                   inflight, query>>

\* Each instruction is a step when its transaction succeeds; a transaction
\* that fails changes nothing and is no step.
InitializePool(p, k, reward_rate, lock_duration) ==
    LET r == InitializePoolTx(World, p, reward_rate, lock_duration, clock)
    IN /\ clock <= MaxPoolCreationTime
       /\ r.err = "Ok"
       /\ Install([Commit(World, r) EXCEPT !.pool_key8[p] = k])
       /\ UNCHANGED <<staked_time, clock, reward_funded, reward_paid, inflight, query>>

Stake(u, p, amount) ==
    LET r == StakeTx(World, u, p, amount, clock)
    IN /\ r.err = "Ok"
       /\ Install(Commit(World, r))
       /\ UNCHANGED <<staked_time, clock, reward_funded, reward_paid, inflight, query>>

Unstake(s, p, a) ==
    LET r == UnstakeTx(World, s, p, a, clock)
    IN /\ r.err = "Ok"
       /\ Install(Commit(World, r))
       /\ reward_paid' = [reward_paid EXCEPT ![p] = @ + r.val[2]]
       /\ UNCHANGED <<staked_time, clock, reward_funded, inflight, query>>

ClaimRewards(s, p, a) ==
    LET r == ClaimRewardsTx(World, s, p, a, clock)
    IN /\ r.err = "Ok"
       /\ Install(Commit(World, r))
       /\ reward_paid' = [reward_paid EXCEPT ![p] = @ + r.val]
       /\ UNCHANGED <<staked_time, clock, reward_funded, inflight, query>>

UpdatePool(p) ==
    LET r == UpdatePoolTx(World, p, clock)
    IN /\ r.err = "Ok"
       /\ Install(Commit(World, r))
       /\ UNCHANGED <<staked_time, clock, reward_funded, reward_paid, inflight, query>>

Next ==
    \/ Tick
    \/ \E p \in SPEC_POOLS, amount \in FUND_AMOUNTS : FundRewardVault(p, amount)
    \/ \E p \in SPEC_POOLS : \E k \in PoolKeyPrefixes(p),
          reward_rate \in REWARD_RATES, lock_duration \in LOCK_DURATIONS :
          InitializePool(p, k, reward_rate, lock_duration)
    \/ \E u \in USERS, p \in SPEC_POOLS, amount \in STAKE_AMOUNTS : Stake(u, p, amount)
    \/ \E s \in USERS, p \in SPEC_POOLS, a \in STAKE_ACCOUNTS : Unstake(s, p, a)
    \/ \E s \in USERS, p \in SPEC_POOLS, a \in STAKE_ACCOUNTS : ClaimRewards(s, p, a)
    \/ \E p \in SPEC_POOLS : UpdatePool(p)

Spec == Init /\ [][Next]_vars

\* ------------------------------------------------------------------------
\* The same program under an arbitrary clock. The timestamp is an input of
\* every instruction (Clock::get()); here it may jump far ahead, to where the
\* accrual arithmetic leaves its integer widths, and it may go back.
\* ------------------------------------------------------------------------
\* The elapsed time from 0 at which reward_rate * elapsed, paid to a single
\* staker, no longer fits 64 bits while every 128-bit product still fits
NarrowingTime == U64_MAX
\* The elapsed time from 0 at which reward_rate * elapsed * REWARD_PRECISION
\* no longer fits 128 bits, whatever the valid rate
OverflowTime == U128_MAX \div (MIN_REWARD_RATE * REWARD_PRECISION) + 1
CLOCK_TIMES == {0, NarrowingTime, OverflowTime}

Warp(t) ==
    /\ t # clock
    /\ clock' = t
    /\ UNCHANGED <<staked_time, ledger, pool_key8, reward_funded, reward_paid, inflight, query>>

NextWarp ==
    \/ \E t \in CLOCK_TIMES : Warp(t)
    \/ \E p \in SPEC_POOLS, amount \in FUND_AMOUNTS : FundRewardVault(p, amount)
    \/ \E p \in SPEC_POOLS :
          InitializePool(p, pool_id_seed(p), MAX_REWARD_RATE, MIN_LOCK_DURATION)
    \/ \E u \in USERS, p \in SPEC_POOLS, amount \in STAKE_AMOUNTS : Stake(u, p, amount)
    \/ \E s \in USERS, p \in SPEC_POOLS, a \in STAKE_ACCOUNTS : Unstake(s, p, a)
    \/ \E s \in USERS, p \in SPEC_POOLS, a \in STAKE_ACCOUNTS : ClaimRewards(s, p, a)
    \/ \E p \in SPEC_POOLS : UpdatePool(p)

WarpSpec == Init /\ [][NextWarp]_vars

\* ------------------------------------------------------------------------
\* One pool, created with valid parameters at an address whose first 8 bytes
\* are the pool id
\* ------------------------------------------------------------------------
MaxOnePoolTime == 2

TickOnePool ==
    /\ clock < MaxOnePoolTime
    /\ Tick

NextOnePool ==
    \/ TickOnePool
    \/ \E p \in SPEC_POOLS, amount \in FUND_AMOUNTS : FundRewardVault(p, amount)
    \/ \E p \in SPEC_POOLS :
          InitializePool(p, pool_id_seed(p), MAX_REWARD_RATE, MIN_LOCK_DURATION)
    \/ \E u \in USERS, p \in SPEC_POOLS, amount \in STAKE_AMOUNTS : Stake(u, p, amount)
    \/ \E s \in USERS, p \in SPEC_POOLS, a \in STAKE_ACCOUNTS : Unstake(s, p, a)
    \/ \E s \in USERS, p \in SPEC_POOLS, a \in STAKE_ACCOUNTS : ClaimRewards(s, p, a)
    \/ \E p \in SPEC_POOLS : UpdatePool(p)

OnePoolSpec == Init /\ [][NextOnePool]_vars

\* The token account a user stakes from is the user's own: the user can move
\* tokens out of it with the token program, outside the staking program.
SpendAmount == 2

Spend(u, amount) ==
    /\ user_token[u] >= amount
    /\ user_token' = [user_token EXCEPT ![u] = @ - amount]
    /\ UNCHANGED <<staked_time, clock, pool, pool_key8, user_stake, stake_vault, reward_vault,
                   reward_funded, reward_paid, inflight, query>>

NextSpend ==
    \/ NextOnePool
    \/ \E u \in USERS : Spend(u, SpendAmount)

SpendSpec == Init /\ [][NextSpend]_vars

\* ------------------------------------------------------------------------
\* One pool with a record of the time during which it had stakes
\* ------------------------------------------------------------------------
MaxEmissionTime == 3

\* A second passes: it counts for the pools that have stakes
TickEmission ==
    /\ clock < MaxEmissionTime
    /\ clock' = clock + 1
    /\ staked_time' = [p \in POOLS |->
                          staked_time[p] + (IF pool[p].total_staked > 0 THEN 1 ELSE 0)]
    /\ UNCHANGED <<ledger, pool_key8, reward_funded, reward_paid, inflight, query>>

NextEmission ==
    \/ TickEmission
    \/ \E p \in SPEC_POOLS, amount \in FUND_AMOUNTS : FundRewardVault(p, amount)
    \/ \E p \in SPEC_POOLS :
          InitializePool(p, pool_id_seed(p), MAX_REWARD_RATE, MIN_LOCK_DURATION)
    \/ \E u \in USERS, p \in SPEC_POOLS, amount \in STAKE_AMOUNTS : Stake(u, p, amount)
    \/ \E s \in USERS, p \in SPEC_POOLS, a \in STAKE_ACCOUNTS : Unstake(s, p, a)
    \/ \E s \in USERS, p \in SPEC_POOLS, a \in STAKE_ACCOUNTS : ClaimRewards(s, p, a)
    \/ \E p \in SPEC_POOLS : UpdatePool(p)

EmissionSpec == Init /\ [][NextEmission]_vars

\* ------------------------------------------------------------------------
\* Calls of the public helper functions, which read accounts handed in by
\* the caller and write nothing
\* ------------------------------------------------------------------------
MaxQueryRewards == 2
MaxApr == 100

\* UserStake values: the stake of test_calculate_pending_rewards has rewards > 0
QUERY_STAKES ==
    [initialized : {TRUE}, user : {"alice"}, pool : {1},
     amount : {MIN_STAKE_AMOUNT, MAX_STAKE_AMOUNT},
     reward_per_token_paid : {0, REWARD_PRECISION},
     rewards : 0..MaxQueryRewards, stake_time : {0},
     unlock_time : {MIN_LOCK_DURATION}, is_active : {TRUE}]

QUERY_POOLS ==
    [initialized : {TRUE}, reward_rate : {MAX_REWARD_RATE},
     total_staked : {0, MAX_STAKE_AMOUNT}, last_update_time : {0},
     reward_per_token_stored : {0, REWARD_PRECISION, 2 * REWARD_PRECISION},
     lock_duration : {MIN_LOCK_DURATION}, is_active : {TRUE}]

QueryPendingRewards(user_stake_account, pool_account, current_time) ==
    /\ query' = [fn |-> "calculate_pending_rewards",
                 user_stake |-> user_stake_account, pool |-> pool_account,
                 current_time |-> current_time,
                 result |-> claim_rewards_calculate_pending_rewards(
                                user_stake_account, pool_account, current_time),
                 has_claimable_rewards |->
                     has_claimable_rewards(user_stake_account, pool_account, current_time)]
    /\ UNCHANGED <<staked_time, clock, ledger, pool_key8, reward_funded, reward_paid, inflight>>

QueryAprRoundTrip(apr_percent) ==
    /\ query' = [fn |-> "apr_round_trip", apr_percent |-> apr_percent,
                 rate |-> apr_to_reward_rate(apr_percent),
                 back_to_apr |-> reward_rate_to_apr(apr_to_reward_rate(apr_percent))]
    /\ UNCHANGED <<staked_time, clock, ledger, pool_key8, reward_funded, reward_paid, inflight>>

NextQuery ==
    \/ \E user_stake_account \in QUERY_STAKES, pool_account \in QUERY_POOLS,
          current_time \in 0..MaxTime :
          QueryPendingRewards(user_stake_account, pool_account, current_time)
    \/ \E apr_percent \in 0..MaxApr : QueryAprRoundTrip(apr_percent)

QuerySpec == Init /\ [][NextQuery]_vars

\* ------------------------------------------------------------------------
\* Calls as values: the instruction, its signer and the accounts passed to it
\* ------------------------------------------------------------------------
Call(op, signer, p, a, sv, rv, amount) ==
    [op |-> op, signer |-> signer, pool |-> p, user_stake |-> a,
     stake_vault |-> sv, reward_vault |-> rv, amount |-> amount]

\* The calls that name p as their pool account. The vault accounts are chosen
\* by the caller, and so is the user_stake account of unstake and claim_rewards;
\* the user_stake account of stake is the address derived from the pool and
\* the signer. The accounts an instruction does not take are filled in.
CallsOn(p) ==
    {Call("stake", u, p, <<p, u>>, sv, p, amount) :
        u \in USERS, sv \in POOLS, amount \in STAKE_AMOUNTS}
    \cup {Call("unstake", s, p, a, v[1], v[2], 0) :
        s \in USERS, a \in STAKE_ACCOUNTS, v \in POOLS \X POOLS}
    \cup {Call("claim_rewards", s, p, a, p, rv, 0) :
        s \in USERS, a \in STAKE_ACCOUNTS, rv \in POOLS}
    \cup {Call("update_pool", s, p, <<p, s>>, p, p, 0) : s \in USERS}

\* constraint = stake_vault.key() == pool.stake_vault,
\* constraint = reward_vault.key() == pool.reward_vault
VaultAccounts(c) ==
    IF c.op \in {"stake", "unstake"} /\ c.stake_vault # c.pool THEN "InvalidTokenAccount"
    ELSE IF c.op \in {"unstake", "claim_rewards"} /\ c.reward_vault # c.pool
         THEN "InvalidTokenAccount"
    ELSE "Ok"

\* The call c as a transaction at time t
Exec(w, c, t) ==
    LET unchecked ==
            IF c.op = "stake" THEN StakeTx(w, c.signer, c.pool, c.amount, t)
            ELSE IF c.op = "unstake" THEN UnstakeTx(w, c.signer, c.pool, c.user_stake, t)
            ELSE IF c.op = "claim_rewards"
                 THEN ClaimRewardsTx(w, c.signer, c.pool, c.user_stake, t)
            ELSE UpdatePoolTx(w, c.pool, t)
        accounts == IF c.op = "stake" THEN StakeAccounts(w, c.pool, c.signer)
                    ELSE IF c.op = "unstake"
                         THEN UnstakeAccounts(w, c.signer, c.pool, c.user_stake)
                    ELSE IF c.op = "claim_rewards"
                         THEN ClaimRewardsAccounts(w, c.signer, c.pool, c.user_stake)
                    ELSE UpdatePoolAccounts(w, c.pool)
    IN IF accounts = "Ok" /\ VaultAccounts(c) # "Ok"
       THEN Return(VaultAccounts(c), w, 0)
       ELSE unchecked

\* The accounts after the transaction
Run(w, c, t) == Commit(w, Exec(w, c, t))

\* ------------------------------------------------------------------------
\* Two pools side by side, both created with valid parameters and with
\* addresses whose first 8 bytes are the pool id
\* ------------------------------------------------------------------------
PAIR_STAKE_AMOUNTS == {MIN_STAKE_AMOUNT}
MaxTwoPoolTime == 1

TickTwoPools ==
    /\ clock < MaxTwoPoolTime
    /\ Tick

NextTwoPools ==
    \/ TickTwoPools
    \/ \E p \in POOLS, amount \in FUND_AMOUNTS : FundRewardVault(p, amount)
    \/ \E p \in POOLS :
          InitializePool(p, pool_id_seed(p), MAX_REWARD_RATE, MIN_LOCK_DURATION)
    \/ \E u \in USERS, p \in POOLS, amount \in PAIR_STAKE_AMOUNTS : Stake(u, p, amount)
    \/ \E s \in USERS, p \in POOLS, a \in STAKE_ACCOUNTS : Unstake(s, p, a)
    \/ \E s \in USERS, p \in POOLS, a \in STAKE_ACCOUNTS : ClaimRewards(s, p, a)
    \/ \E p \in POOLS : UpdatePool(p)

TwoPoolSpec == Init /\ [][NextTwoPools]_vars

\* ------------------------------------------------------------------------
\* Transactions of different users in execution at the same time. A
\* transaction loads the accounts it names, runs its handler on them and
\* stores the accounts it declares writable (#[account(mut)], init); the
\* runtime does not execute two transactions at the same time when an account
\* that one of them writes is named by the other.
\* ------------------------------------------------------------------------
NoAccounts ==
    [pool |-> {}, user_stake |-> {}, user_token |-> {}, stake_vault |-> {},
     reward_vault |-> {}]

\* The accounts the call c declares writable; no instruction names an account
\* of the ledger that it does not declare writable
Writable(c) ==
    IF c.op = "stake" THEN
        [NoAccounts EXCEPT !.pool = {c.pool}, !.user_stake = {c.user_stake},
                           !.user_token = {c.signer}, !.stake_vault = {c.stake_vault}]
    ELSE IF c.op = "unstake" THEN
        [NoAccounts EXCEPT !.pool = {c.pool}, !.user_stake = {c.user_stake},
                           !.user_token = {c.signer}, !.stake_vault = {c.stake_vault},
                           !.reward_vault = {c.reward_vault}]
    ELSE IF c.op = "claim_rewards" THEN
        [NoAccounts EXCEPT !.pool = {c.pool}, !.user_stake = {c.user_stake},
                           !.user_token = {c.signer}, !.reward_vault = {c.reward_vault}]
    ELSE IF c.op = "update_pool" THEN [NoAccounts EXCEPT !.pool = {c.pool}]
    ELSE NoAccounts

ConflictNever(W, V) == FALSE

\* Two sets of writable accounts share an account
Conflict(W, V) ==
    \/ W.pool \cap V.pool # {}
    \/ W.user_stake \cap V.user_stake # {}
    \/ W.user_token \cap V.user_token # {}
    \/ W.stake_vault \cap V.stake_vault # {}
    \/ W.reward_vault \cap V.reward_vault # {}

\* No transaction in execution names an account of W
Unlocked(W) ==
    \A v \in USERS : inflight[v].busy => ~Conflict(W, Writable(inflight[v].call))

\* The accounts of W as they are in top, every other account as in base
Overlay(base, top, W) ==
    [pool |-> [p \in POOLS |-> IF p \in W.pool THEN top.pool[p] ELSE base.pool[p]],
     pool_key8 |-> base.pool_key8,
     user_stake |-> [a \in STAKE_ACCOUNTS |->
                       IF a \in W.user_stake THEN top.user_stake[a] ELSE base.user_stake[a]],
     user_token |-> [u \in USERS |->
                       IF u \in W.user_token THEN top.user_token[u] ELSE base.user_token[u]],
     stake_vault |-> [p \in POOLS |->
                        IF p \in W.stake_vault THEN top.stake_vault[p]
                        ELSE base.stake_vault[p]],
     reward_vault |-> [p \in POOLS |->
                         IF p \in W.reward_vault THEN top.reward_vault[p]
                         ELSE base.reward_vault[p]]]

\* The accounts the transaction of c is given: those it names, as they are
Load(w, c) == [Overlay(Genesis, w, Writable(c)) EXCEPT !.pool_key8 = w.pool_key8]

\* The accounts after the transaction t (loaded earlier) has run at the time
\* current_time and stored its writable accounts
Complete(w, t, current_time) ==
    Overlay(w, Run(t.w, t.call, current_time), Writable(t.call))

\* Reward tokens that left the reward vault in the call c with result r
PaidOut(c, r) ==
    IF r.err # "Ok" THEN 0
    ELSE IF c.op = "claim_rewards" THEN r.val
    ELSE IF c.op = "unstake" THEN r.val[2]
    ELSE 0

ConcurrentCalls(p) ==
    {c \in CallsOn(p) : /\ c.stake_vault = p
                        /\ c.reward_vault = p
                        /\ c.op = "stake" => c.amount \in PAIR_STAKE_AMOUNTS}

\* The runtime starts the transaction of the call c
Begin(u, c) ==
    /\ ~inflight[u].busy
    /\ c.signer = u
    /\ Unlocked(Writable(c))
    /\ inflight' = [inflight EXCEPT ![u] =
                        [busy |-> TRUE, call |-> c, w |-> Load(World, c)]]
    /\ UNCHANGED <<staked_time, clock, ledger, pool_key8, reward_funded, reward_paid, query>>

\* The handler runs and the transaction ends
End(u) ==
    /\ inflight[u].busy
    /\ LET t == inflight[u]
       IN /\ Install(Complete(World, t, clock))
          /\ reward_paid' = [reward_paid EXCEPT ![t.call.pool] =
                                 @ + PaidOut(t.call, Exec(t.w, t.call, clock))]
    /\ inflight' = [inflight EXCEPT ![u] = Idle]
    /\ UNCHANGED <<staked_time, clock, reward_funded, query>>

NextConcurrent ==
    \/ TickTwoPools
    \/ \E p \in SPEC_POOLS, amount \in FUND_AMOUNTS :
          /\ Unlocked([NoAccounts EXCEPT !.reward_vault = {p}])
          /\ FundRewardVault(p, amount)
    \/ \E p \in SPEC_POOLS :
          /\ Unlocked([NoAccounts EXCEPT !.pool = {p}])
          /\ InitializePool(p, pool_id_seed(p), MAX_REWARD_RATE, MIN_LOCK_DURATION)
    \/ \E u \in USERS, p \in SPEC_POOLS : \E c \in ConcurrentCalls(p) : Begin(u, c)
    \/ \E u \in USERS : End(u)

ConcurrentSpec == Init /\ [][NextConcurrent]_vars

\* ------------------------------------------------------------------------
\* Properties
\* ------------------------------------------------------------------------
RECURSIVE SumAmounts(_, _)
RECURSIVE SumOwed(_, _, _, _)
SumAmounts(w, S) ==
    IF S = {} THEN 0
    ELSE LET a == CHOOSE x \in S : TRUE
         IN w.user_stake[a].amount + SumAmounts(w, S \ {a})

ActiveStakes(w, p) ==
    {a \in STAKE_ACCOUNTS : w.user_stake[a].initialized /\ w.user_stake[a].is_active
                            /\ w.user_stake[a].pool = p}

\* The stake account a is an active stake of pool p owned by s
OwnActiveStake(w, s, p, a) ==
    /\ w.pool[p].initialized
    /\ w.user_stake[a].initialized
    /\ w.user_stake[a].is_active
    /\ w.user_stake[a].user = s
    /\ w.user_stake[a].pool = p

\* What the stake a has accrued up to time t and not yet received
AccruedAt(w, p, a, t) ==
    calculate_pending_rewards(w.user_stake[a], calculate_reward_per_token(w.pool[p], t))

\* What claim_rewards and unstake compute as the reward to pay at time t
OwedAt(w, p, a, t) ==
    calculate_claimable_rewards(update_pool_rewards(w, p, t), p, a).val

Abs(x) == IF x < 0 THEN -x ELSE x

\* C1: in every reachable state, pool.total_staked is the sum of amount over
\* the active stake records of the pool.
ConservationOfPrincipal ==
    \A p \in POOLS : pool[p].total_staked = SumAmounts(World, ActiveStakes(World, p))

\* One stake is active, created now, in a pool whose accumulator has grown:
\* an earlier stake accrued rewards and has been withdrawn since.
ConservationWitness ==
    \E p \in POOLS : \E a \in STAKE_ACCOUNTS :
        /\ ActiveStakes(World, p) = {a}
        /\ user_stake[a].stake_time = clock
        /\ pool[p].reward_per_token_stored > 0
        /\ pool[p].total_staked = user_stake[a].amount
        /\ pool[p].total_staked > 0

\* The call r on the stake account a of pool p, if it succeeded, has brought the
\* accumulator up to now with the total_staked in force before the call, and
\* has left what every other active stake of the pool has accrued as it was
SettledFirst(p, a, r) ==
    r.err = "Ok" =>
        /\ r.w.pool[p].reward_per_token_stored = calculate_reward_per_token(pool[p], clock)
        /\ r.w.pool[p].last_update_time = clock
        /\ \A b \in ActiveStakes(World, p) \ {a} :
               /\ r.w.user_stake[b] = user_stake[b]
               /\ AccruedAt(r.w, p, b, clock) = AccruedAt(World, p, b, clock)

\* C2: every successful stake, unstake and claim_rewards brings the accumulator
\* up to the current time with the total_staked in force before the call, and
\* leaves what every other active stake of the pool has accrued up to now as
\* it was before the call.
SettleBeforeMutate ==
    /\ \A u \in USERS, p \in POOLS, amount \in STAKE_AMOUNTS :
           SettledFirst(p, <<p, u>>, StakeTx(World, u, p, amount, clock))
    /\ \A s \in USERS, p \in POOLS, a \in STAKE_ACCOUNTS :
           /\ SettledFirst(p, a, UnstakeTx(World, s, p, a, clock))
           /\ SettledFirst(p, a, ClaimRewardsTx(World, s, p, a, clock))

\* The successful call r changes total_staked of pool p and moves the
\* accumulator while another stake has accrued a reward since the last settlement
SettledWithAccrual(p, a, r) ==
    /\ r.err = "Ok"
    /\ r.w.pool[p].total_staked # pool[p].total_staked
    /\ r.w.pool[p].reward_per_token_stored > pool[p].reward_per_token_stored
    /\ \E b \in ActiveStakes(World, p) \ {a} : AccruedAt(World, p, b, clock) > 0

\* A deposit or a withdrawal succeeds while another stake has accrued a
\* reward since the last settlement
SettleBeforeMutateWitness ==
    \/ \E u \in USERS, p \in POOLS, amount \in STAKE_AMOUNTS :
           SettledWithAccrual(p, <<p, u>>, StakeTx(World, u, p, amount, clock))
    \/ \E s \in USERS, p \in POOLS, a \in STAKE_ACCOUNTS :
           SettledWithAccrual(p, a, UnstakeTx(World, s, p, a, clock))

\* Two active stakes of one pool, of equal amount, created at the same
\* timestamp, neither settled since (same checkpoint, nothing stored)
EqualStakes(w, p, a, b) ==
    /\ a # b
    /\ a \in ActiveStakes(w, p)
    /\ b \in ActiveStakes(w, p)
    /\ w.user_stake[a].amount = w.user_stake[b].amount
    /\ w.user_stake[a].stake_time = w.user_stake[b].stake_time
    /\ w.user_stake[a].reward_per_token_paid = w.user_stake[b].reward_per_token_paid
    /\ w.user_stake[a].rewards = w.user_stake[b].rewards

\* The owner of a claims, then the owner of b claims at the same timestamp
ClaimThenClaim(w, p, a, b, t) ==
    LET first == ClaimRewardsTx(w, w.user_stake[a].user, p, a, t)
        second == ClaimRewardsTx(Commit(w, first), w.user_stake[b].user, p, b, t)
    IN [ok |-> first.err = "Ok" /\ second.err = "Ok",
        first_paid |-> first.val, second_paid |-> second.val]

\* C3: two stakes of equal amount created at the same timestamp are paid the
\* same reward (within 1 unit) when both owners claim at the same later time,
\* whichever of the two claims first.
FairnessEqualStakes ==
    \A p \in POOLS : \A a, b \in STAKE_ACCOUNTS :
        EqualStakes(World, p, a, b) =>
            LET ab == ClaimThenClaim(World, p, a, b, clock)
                ba == ClaimThenClaim(World, p, b, a, clock)
            IN /\ ab.ok => Abs(ab.first_paid - ab.second_paid) <= 1
               /\ (ab.ok /\ ba.ok) =>
                      /\ Abs(ab.first_paid - ba.second_paid) <= 1
                      /\ Abs(ab.second_paid - ba.first_paid) <= 1

\* Two equal stakes have accrued a reward and both claims are paid
FairnessWitness ==
    \E p \in POOLS : \E a, b \in STAKE_ACCOUNTS :
        /\ EqualStakes(World, p, a, b)
        /\ ClaimThenClaim(World, p, a, b, clock).ok
        /\ ClaimThenClaim(World, p, a, b, clock).first_paid > 0
        /\ ClaimThenClaim(World, p, a, b, clock).second_paid > 0

\* C4: the accumulator never decreases, and when it changes it grows by
\* reward_rate * elapsed * REWARD_PRECISION / total_staked of the state before.
MonotonicAccrual ==
    [][\A p \in POOLS :
          /\ pool'[p].reward_per_token_stored >= pool[p].reward_per_token_stored
          /\ pool'[p].reward_per_token_stored # pool[p].reward_per_token_stored =>
                 /\ pool[p].total_staked > 0
                 /\ pool'[p].reward_per_token_stored =
                        pool[p].reward_per_token_stored
                        + (pool[p].reward_rate * (clock - pool[p].last_update_time)
                           * REWARD_PRECISION) \div pool[p].total_staked]_vars

\* The accumulator has grown twice: a stake holds a checkpoint above zero and
\* the pool has accrued beyond it
MonotonicAccrualWitness ==
    \E p \in POOLS : \E a \in ActiveStakes(World, p) :
        /\ user_stake[a].reward_per_token_paid > 0
        /\ pool[p].reward_per_token_stored > user_stake[a].reward_per_token_paid

\* C5: unstake of an active stake by its owner at any time before unlock_time
\* fails with StakeStillLocked and changes no account.
LockEnforcement ==
    \A s \in USERS, p \in POOLS, a \in STAKE_ACCOUNTS :
        OwnActiveStake(World, s, p, a) =>
            \A now \in 0..MaxTime :
                now < user_stake[a].unlock_time =>
                    LET r == UnstakeTx(World, s, p, a, now)
                    IN /\ r.err = "StakeStillLocked"
                       /\ Commit(World, r) = World

\* A stake is still locked, in a pool whose vaults could pay it out
LockEnforcementWitness ==
    \E s \in USERS, p \in POOLS, a \in STAKE_ACCOUNTS :
        /\ OwnActiveStake(World, s, p, a)
        /\ clock < user_stake[a].unlock_time
        /\ UnstakeTx(World, s, p, a, clock).err = "StakeStillLocked"
        /\ signer_is_vault_authority(World, p)
        /\ OwedAt(World, p, a, clock) > 0
        /\ reward_vault[p] >= OwedAt(World, p, a, clock)

\* The stake a of pool p, owned by s, is unlocked at time t and both vaults
\* hold what unstake has to pay
ReadyToUnstake(w, s, p, a, t) ==
    /\ OwnActiveStake(w, s, p, a)
    /\ w.user_stake[a].amount > 0
    /\ t >= w.user_stake[a].unlock_time
    /\ t >= w.pool[p].last_update_time
    /\ w.stake_vault[p] >= w.user_stake[a].amount
    /\ w.reward_vault[p] >= OwedAt(w, p, a, t)

\* What a successful unstake of a at time t has to look like
UnstakePaysOut(w, s, p, a, t) ==
    LET r == UnstakeTx(w, s, p, a, t)
        principal == w.user_stake[a].amount
        reward == OwedAt(w, p, a, t)
    IN /\ r.err = "Ok"
       /\ r.val = <<principal, reward>>
       /\ r.w.stake_vault[p] = w.stake_vault[p] - principal
       /\ r.w.user_token[s] = w.user_token[s] + principal
       /\ r.w.reward_vault[p] = w.reward_vault[p] - reward
       /\ r.w.pool[p].total_staked = w.pool[p].total_staked - principal
       /\ ~r.w.user_stake[a].is_active
       /\ r.w.user_stake[a].amount = 0
       /\ r.w.user_stake[a].rewards = 0

\* C6: unstake of an active stake with amount > 0 at any time now >= unlock_time,
\* with both vaults sufficiently funded, succeeds, pays the principal from the
\* stake vault and the settled reward from the reward vault, decreases
\* total_staked by the principal and leaves the stake inactive and empty.
UnstakeSucceedsWhenUnlocked ==
    \A s \in USERS, p \in POOLS, a \in STAKE_ACCOUNTS :
        ReadyToUnstake(World, s, p, a, clock) => UnstakePaysOut(World, s, p, a, clock)

\* The same, for the pools whose vault signer seeds derive the pool address
UnstakeSucceedsWithValidSigner ==
    \A s \in USERS, p \in POOLS, a \in STAKE_ACCOUNTS :
        (ReadyToUnstake(World, s, p, a, clock) /\ signer_is_vault_authority(World, p))
            => UnstakePaysOut(World, s, p, a, clock)

\* C7: the reward paid out of a pool's reward vault never exceeds what was
\* deposited into it, and a claim or an unstake (of an unlocked stake by its
\* owner) that owes more than the reward vault holds fails with
\* InsufficientRewardTokens and pays nothing.
RewardPayoutsBoundedByFunding ==
    /\ \A p \in POOLS : reward_paid[p] <= reward_funded[p]
    /\ \A s \in USERS, p \in POOLS, a \in STAKE_ACCOUNTS :
           (OwnActiveStake(World, s, p, a) /\ OwedAt(World, p, a, clock) > reward_vault[p]) =>
               /\ ClaimRewardsTx(World, s, p, a, clock).err = "InsufficientRewardTokens"
               /\ clock >= user_stake[a].unlock_time =>
                      UnstakeTx(World, s, p, a, clock).err = "InsufficientRewardTokens"

\* The part of C7 that does not depend on the error an unstake reports
RewardPayoutsNeverExceedFunding ==
    /\ \A p \in POOLS : reward_paid[p] <= reward_funded[p]
    /\ \A p \in POOLS : reward_vault[p] = reward_funded[p] - reward_paid[p]
    /\ \A s \in USERS, p \in POOLS, a \in STAKE_ACCOUNTS :
           (OwnActiveStake(World, s, p, a) /\ OwedAt(World, p, a, clock) > reward_vault[p]) =>
               /\ ClaimRewardsTx(World, s, p, a, clock).err = "InsufficientRewardTokens"
               /\ UnstakeTx(World, s, p, a, clock).err # "Ok"
               /\ signer_is_vault_authority(World, p) /\ clock >= user_stake[a].unlock_time =>
                      UnstakeTx(World, s, p, a, clock).err = "InsufficientRewardTokens"

\* The call r, if it returned an error, leaves every account as it was
NothingOnError(r) == r.err # "Ok" => Commit(World, r) = World

FundedUpTo(w, p, amount) ==
    [w EXCEPT !.reward_vault[p] = IF @ < amount THEN amount ELSE @]

\* C9: a claim refused for reward-vault underfunding changes neither the
\* stake's unclaimed rewards nor its checkpoint, and a claim made at the same
\* or a later time, once the vault holds what is owed then, pays at least what
\* was owed at the refused claim.
UnderfundedClaimStaysClaimable ==
    \A s \in USERS, p \in POOLS, a \in STAKE_ACCOUNTS :
        LET r == ClaimRewardsTx(World, s, p, a, clock)
        IN r.err = "InsufficientRewardTokens" =>
               /\ Commit(World, r).user_stake[a] = user_stake[a]
               /\ \A later \in clock..MaxTime :
                      LET funded == FundedUpTo(Commit(World, r), p,
                                               OwedAt(World, p, a, later))
                          again == ClaimRewardsTx(funded, s, p, a, later)
                      IN /\ again.err = "Ok"
                         /\ again.val >= OwedAt(World, p, a, clock)

\* The same, for the pools whose vault signer seeds derive the pool address
UnderfundedClaimWithValidSigner ==
    \A s \in USERS, p \in POOLS, a \in STAKE_ACCOUNTS :
        LET r == ClaimRewardsTx(World, s, p, a, clock)
        IN (r.err = "InsufficientRewardTokens" /\ signer_is_vault_authority(World, p)) =>
               /\ Commit(World, r).user_stake[a] = user_stake[a]
               /\ \A later \in clock..MaxTime :
                      LET funded == FundedUpTo(Commit(World, r), p,
                                               OwedAt(World, p, a, later))
                          again == ClaimRewardsTx(funded, s, p, a, later)
                      IN /\ again.err = "Ok"
                         /\ again.val >= OwedAt(World, p, a, clock)

\* A participant with an active stake in an active pool stakes a valid amount
\* that their balance covers
RepeatDeposit(w, u, p, amount) ==
    /\ OwnActiveStake(w, u, p, <<p, u>>)
    /\ w.pool[p].is_active
    /\ is_valid_stake_amount(amount)
    /\ w.user_token[u] >= amount

\* C10 as claimed: a repeat deposit succeeds, settles the existing stake and
\* adds amount to stake.amount and to pool.total_staked.
RepeatDepositAccepted ==
    \A u \in USERS, p \in POOLS, amount \in STAKE_AMOUNTS :
        RepeatDeposit(World, u, p, amount) =>
            LET r == StakeTx(World, u, p, amount, clock)
            IN /\ r.err = "Ok"
               /\ r.w.user_stake[<<p, u>>].amount = user_stake[<<p, u>>].amount + amount
               /\ r.w.pool[p].total_staked = pool[p].total_staked + amount

\* C10 (amended): a repeat deposit is rejected when the user_stake account is
\* created (AccountAlreadyInUse) and changes nothing: the stake's amount and
\* pool.total_staked stay as they were.
RepeatDepositRejected ==
    \A u \in USERS, p \in POOLS, amount \in STAKE_AMOUNTS :
        RepeatDeposit(World, u, p, amount) =>
            LET r == StakeTx(World, u, p, amount, clock)
            IN /\ r.err = "AccountAlreadyInUse"
               /\ Commit(World, r) = World

\* A participant holds an active stake and enough tokens for a second deposit
RepeatDepositWitness ==
    \E u \in USERS, p \in POOLS, amount \in STAKE_AMOUNTS :
        /\ RepeatDeposit(World, u, p, amount)
        /\ StakeTx(World, u, p, amount, clock).err = "AccountAlreadyInUse"
        /\ clock > user_stake[<<p, u>>].stake_time

\* The reward of a stake of amount units out of total, held for elapsed
\* seconds at reward_rate, with the rate scaled by RATE_PRECISION
ScaledReward(reward_rate, elapsed, amount, total) ==
    ((reward_rate * elapsed * amount) \div total) \div RATE_PRECISION

\* The pool p has reward_rate = RATE_PRECISION, was last settled at t = 0, and
\* the stakes in S are its active stakes, all created at t = 0 and never
\* settled; its vault signer is valid and no division of the accrual truncates
ReferencePool(w, p, S, t) ==
    /\ w.pool[p].initialized
    /\ w.pool[p].reward_rate = RATE_PRECISION
    /\ w.pool[p].last_update_time = 0
    /\ w.pool[p].reward_per_token_stored = 0
    /\ ActiveStakes(w, p) = S
    /\ \A a \in S : w.user_stake[a].stake_time = 0 /\ w.user_stake[a].rewards = 0
    /\ signer_is_vault_authority(w, p)
    /\ t > 0
    /\ (w.pool[p].reward_rate * t * REWARD_PRECISION) % w.pool[p].total_staked = 0
    /\ \A a \in S :
           (w.user_stake[a].amount * calculate_reward_per_token(w.pool[p], t))
               % REWARD_PRECISION = 0

\* C11: in a pool with reward_rate = RATE_PRECISION and a single stake created
\* at t = 0, a claim at time t pays exactly reward_rate * t * amount /
\* total_staked / RATE_PRECISION = t reward units (100 at t = 100) and leaves
\* the stake's unclaimed rewards at 0.
ReferenceScenarioSingleStake ==
    \A p \in POOLS, a \in STAKE_ACCOUNTS :
        (/\ ReferencePool(World, p, {a}, clock)
         /\ reward_vault[p] >= OwedAt(World, p, a, clock)) =>
            LET r == ClaimRewardsTx(World, user_stake[a].user, p, a, clock)
            IN /\ r.err = "Ok"
               /\ r.val = ScaledReward(pool[p].reward_rate, clock,
                                       user_stake[a].amount, pool[p].total_staked)
               /\ r.val = clock
               /\ r.w.user_stake[a].rewards = 0

\* What the code pays in the scenario of C11: reward_rate * t
ReferenceScenarioSingleStakePaysRate ==
    \A p \in POOLS, a \in STAKE_ACCOUNTS :
        (/\ ReferencePool(World, p, {a}, clock)
         /\ reward_vault[p] >= OwedAt(World, p, a, clock)) =>
            LET r == ClaimRewardsTx(World, user_stake[a].user, p, a, clock)
            IN /\ r.err = "Ok"
               /\ r.val = pool[p].reward_rate * clock
               /\ r.w.user_stake[a].rewards = 0

\* C12: two stakes of x and 3x units created at t = 0 in a pool with
\* reward_rate = RATE_PRECISION; when both owners claim at time t, in either
\* order, the payouts are in exact ratio 1:3 and add up to the total accrued,
\* reward_rate * t / RATE_PRECISION.
ReferenceScenarioProportionalSplit ==
    \A p \in POOLS : \A a, b \in STAKE_ACCOUNTS :
        (/\ a # b
         /\ ReferencePool(World, p, {a, b}, clock)
         /\ user_stake[b].amount = 3 * user_stake[a].amount
         /\ reward_vault[p] >= OwedAt(World, p, a, clock) + OwedAt(World, p, b, clock)) =>
            LET ab == ClaimThenClaim(World, p, a, b, clock)
                ba == ClaimThenClaim(World, p, b, a, clock)
            IN /\ ab.ok /\ ba.ok
               /\ ab.second_paid = 3 * ab.first_paid
               /\ ba.first_paid = 3 * ba.second_paid
               /\ ab.first_paid = ba.second_paid
               /\ ab.first_paid + ab.second_paid =
                      (pool[p].reward_rate * clock) \div RATE_PRECISION

\* The part of C12 that the code keeps: the ratio 1:3 in either order, with the
\* payouts adding up to reward_rate * t
ReferenceScenarioSplitRatio ==
    \A p \in POOLS : \A a, b \in STAKE_ACCOUNTS :
        (/\ a # b
         /\ ReferencePool(World, p, {a, b}, clock)
         /\ user_stake[b].amount = 3 * user_stake[a].amount
         /\ reward_vault[p] >= OwedAt(World, p, a, clock) + OwedAt(World, p, b, clock)) =>
            LET ab == ClaimThenClaim(World, p, a, b, clock)
                ba == ClaimThenClaim(World, p, b, a, clock)
            IN /\ ab.ok /\ ba.ok
               /\ ab.second_paid = 3 * ab.first_paid
               /\ ba.first_paid = 3 * ba.second_paid
               /\ ab.first_paid = ba.second_paid
               /\ ab.first_paid + ab.second_paid = pool[p].reward_rate * clock

\* The stake a of pool p has been held since stake_time with no other pool
\* activity: the pool was last settled when the stake was created
HeldUndisturbed(w, p, a) ==
    /\ a \in ActiveStakes(w, p)
    /\ w.pool[p].initialized
    /\ w.pool[p].last_update_time = w.user_stake[a].stake_time
    /\ w.user_stake[a].reward_per_token_paid = w.pool[p].reward_per_token_stored
    /\ w.user_stake[a].rewards = 0

\* C13: a stake of amount A held for e seconds with no other pool activity
\* accrues A * reward_rate * e / RATE_PRECISION reward units, the value
\* calculate_estimated_rewards(A, reward_rate, e) reports.
RateSemantics ==
    \A p \in POOLS, a \in STAKE_ACCOUNTS :
        (HeldUndisturbed(World, p, a) /\ clock >= user_stake[a].stake_time) =>
            OwedAt(World, p, a, clock) =
                calculate_estimated_rewards(user_stake[a].amount, pool[p].reward_rate,
                                            clock - user_stake[a].stake_time)

\* The accumulator step of pool p at time t, in unbounded arithmetic
ExactAdditional(w, p, t) ==
    (w.pool[p].reward_rate * (t - w.pool[p].last_update_time) * REWARD_PRECISION)
        \div w.pool[p].total_staked

\* Settling pool p at time t >= last_update_time leaves 128 bits: in the
\* product reward_rate * elapsed * REWARD_PRECISION or in accumulator + delta
PoolAccrualOverflows(w, p, t) ==
    /\ w.pool[p].total_staked > 0
    /\ t >= w.pool[p].last_update_time
    /\ \/ w.pool[p].reward_rate * (t - w.pool[p].last_update_time) * REWARD_PRECISION
              > U128_MAX
       \/ w.pool[p].reward_per_token_stored + ExactAdditional(w, p, t) > U128_MAX

\* Settling the stake a against the accumulator acc leaves its width: in the
\* product amount * (acc - checkpoint), in the narrowing of the reward to 64
\* bits, or in rewards + owed
StakeAccrualOverflows(w, a, acc) ==
    LET diff == IF acc >= w.user_stake[a].reward_per_token_paid
                THEN acc - w.user_stake[a].reward_per_token_paid ELSE 0
        new_rewards == (w.user_stake[a].amount * diff) \div REWARD_PRECISION
    IN \/ w.user_stake[a].amount * diff > U128_MAX
       \/ new_rewards > U64_MAX
       \/ 2 * w.user_stake[a].rewards + new_rewards > U64_MAX

\* An overflow occurs on the accrual path of a claim or an unstake of a at t
AccrualOverflows(w, p, a, t) ==
    \/ PoolAccrualOverflows(w, p, t)
    \/ /\ t >= w.pool[p].last_update_time
       /\ StakeAccrualOverflows(w, a, update_pool_rewards(w, p, t).pool[p].reward_per_token_stored)

OverflowErrors == {"MathOverflow", "RewardCalculationOverflow"}

\* C14: whenever a step of the accrual path exceeds its integer width, the
\* operation (update_pool, stake, claim_rewards, unstake, past its account
\* checks and its validation) fails with a math-overflow error; the result is
\* never silently replaced by 0, by the old value or by a truncated value.
OverflowAborts ==
    /\ \A p \in POOLS :
           (/\ UpdatePoolAccounts(World, p) = "Ok"
            /\ PoolAccrualOverflows(World, p, clock)) =>
               UpdatePoolTx(World, p, clock).err \in OverflowErrors
    /\ \A u \in USERS, p \in POOLS, amount \in STAKE_AMOUNTS :
           (/\ StakeAccounts(World, p, u) = "Ok"
            /\ validate_stake(World, p, u, amount, clock) = "Ok"
            /\ PoolAccrualOverflows(World, p, clock)) =>
               StakeTx(World, u, p, amount, clock).err \in OverflowErrors
    /\ \A s \in USERS, p \in POOLS, a \in STAKE_ACCOUNTS :
           (/\ ClaimRewardsAccounts(World, s, p, a) = "Ok"
            /\ validate_claim(World, a, clock) = "Ok"
            /\ AccrualOverflows(World, p, a, clock)) =>
               ClaimRewardsTx(World, s, p, a, clock).err \in OverflowErrors
    /\ \A s \in USERS, p \in POOLS, a \in STAKE_ACCOUNTS :
           (/\ UnstakeAccounts(World, s, p, a) = "Ok"
            /\ validate_unstake(World, a, clock) = "Ok"
            /\ AccrualOverflows(World, p, a, clock)) =>
               UnstakeTx(World, s, p, a, clock).err \in OverflowErrors

\* What the code does instead for the pool: update_pool succeeds at an
\* overflowing step, and the accumulator stays as it was
OverflowKeepsAccumulator ==
    \A p \in POOLS :
        (/\ UpdatePoolAccounts(World, p) = "Ok"
         /\ PoolAccrualOverflows(World, p, clock)) =>
            LET r == UpdatePoolTx(World, p, clock)
            IN /\ r.err = "Ok"
               /\ r.w.pool[p].reward_per_token_stored = pool[p].reward_per_token_stored
               /\ r.w.pool[p].last_update_time = clock

\* C15: a stake, unstake, claim_rewards or update_pool call made with a
\* timestamp strictly less than pool.last_update_time fails and leaves the
\* pool unchanged, so last_update_time never moves backwards.
ClockRegressionRejected ==
    \A p \in POOLS :
        (pool[p].initialized /\ clock < pool[p].last_update_time) =>
            /\ UpdatePoolTx(World, p, clock).err # "Ok"
            /\ \A u \in USERS, amount \in STAKE_AMOUNTS :
                   /\ StakeTx(World, u, p, amount, clock).err # "Ok"
                   /\ Commit(World, StakeTx(World, u, p, amount, clock)).pool[p] = pool[p]
            /\ \A s \in USERS, a \in STAKE_ACCOUNTS :
                   /\ ClaimRewardsTx(World, s, p, a, clock).err # "Ok"
                   /\ UnstakeTx(World, s, p, a, clock).err # "Ok"
                   /\ Commit(World, ClaimRewardsTx(World, s, p, a, clock)).pool[p] = pool[p]
                   /\ Commit(World, UnstakeTx(World, s, p, a, clock)).pool[p] = pool[p]

\* The part of C15 that the code keeps: update_pool rejects a clock regression
ClockRegressionRejectedByUpdatePool ==
    \A p \in POOLS :
        (pool[p].initialized /\ clock < pool[p].last_update_time) =>
            UpdatePoolTx(World, p, clock).err = "InvalidTimestamp"

\* C18: update_pool called twice at the same timestamp with nothing in
\* between: the second call succeeds and leaves every field of the pool, and
\* every other account, as the first call left it.
IdempotentSettlement ==
    \A p \in POOLS :
        LET first == UpdatePoolTx(World, p, clock)
            second == UpdatePoolTx(Commit(World, first), p, clock)
        IN first.err = "Ok" =>
               /\ second.err = "Ok"
               /\ second.w.pool[p] = first.w.pool[p]
               /\ second.w = first.w

\* A first update_pool moves the accumulator and the second one succeeds
IdempotentSettlementWitness ==
    \E p \in POOLS :
        LET first == UpdatePoolTx(World, p, clock)
            second == UpdatePoolTx(Commit(World, first), p, clock)
        IN /\ first.err = "Ok"
           /\ first.w.pool[p].reward_per_token_stored > pool[p].reward_per_token_stored
           /\ first.w.pool[p].last_update_time > pool[p].last_update_time
           /\ second.err = "Ok"

\* C19: when the owner of an active stake calls claim_rewards twice in a row
\* at the same timestamp, with a reward vault that holds what is owed, the
\* second call succeeds, transfers 0 and leaves the pool, the stake and the
\* reward vault as the first call left them; a repeated stake or unstake is
\* never such a successful call without effect.
ClaimTwiceSecondSucceeds ==
    /\ \A s \in USERS, p \in POOLS, a \in STAKE_ACCOUNTS :
           (OwnActiveStake(World, s, p, a) /\ reward_vault[p] >= OwedAt(World, p, a, clock)) =>
               LET first == ClaimRewardsTx(World, s, p, a, clock)
                   second == ClaimRewardsTx(Commit(World, first), s, p, a, clock)
               IN /\ second.err = "Ok"
                  /\ second.val = 0
                  /\ Commit(Commit(World, first), second) = Commit(World, first)
    /\ \A u \in USERS, p \in POOLS, amount \in STAKE_AMOUNTS :
           LET first == StakeTx(World, u, p, amount, clock)
               second == StakeTx(Commit(World, first), u, p, amount, clock)
           IN first.err = "Ok" => ~(second.err = "Ok" /\ second.w = first.w)
    /\ \A s \in USERS, p \in POOLS, a \in STAKE_ACCOUNTS :
           LET first == UnstakeTx(World, s, p, a, clock)
               second == UnstakeTx(Commit(World, first), s, p, a, clock)
           IN first.err = "Ok" => ~(second.err = "Ok" /\ second.w = first.w)

\* The same, for a first claim that succeeded
IdempotentClaim ==
    /\ \A s \in USERS, p \in POOLS, a \in STAKE_ACCOUNTS :
           LET first == ClaimRewardsTx(World, s, p, a, clock)
               second == ClaimRewardsTx(Commit(World, first), s, p, a, clock)
           IN first.err = "Ok" =>
                  /\ second.err = "Ok"
                  /\ second.val = 0
                  /\ second.w = first.w
    /\ \A u \in USERS, p \in POOLS, amount \in STAKE_AMOUNTS :
           LET first == StakeTx(World, u, p, amount, clock)
               second == StakeTx(Commit(World, first), u, p, amount, clock)
           IN first.err = "Ok" => ~(second.err = "Ok" /\ second.w = first.w)
    /\ \A s \in USERS, p \in POOLS, a \in STAKE_ACCOUNTS :
           LET first == UnstakeTx(World, s, p, a, clock)
               second == UnstakeTx(Commit(World, first), s, p, a, clock)
           IN first.err = "Ok" => ~(second.err = "Ok" /\ second.w = first.w)

\* A first claim pays a reward and the second one succeeds
IdempotentClaimWitness ==
    \E s \in USERS, p \in POOLS, a \in STAKE_ACCOUNTS :
        LET first == ClaimRewardsTx(World, s, p, a, clock)
            second == ClaimRewardsTx(Commit(World, first), s, p, a, clock)
        IN /\ first.err = "Ok"
           /\ first.val > 0
           /\ first.w.reward_vault[p] > 0
           /\ second.err = "Ok"

\* C20: claim_rewards on an active stake that is owed 0 succeeds, transfers
\* nothing and leaves the reward vault and the stake's unclaimed rewards as
\* they were.
ZeroClaimSucceeds ==
    \A s \in USERS, p \in POOLS, a \in STAKE_ACCOUNTS :
        (OwnActiveStake(World, s, p, a) /\ OwedAt(World, p, a, clock) = 0) =>
            LET r == ClaimRewardsTx(World, s, p, a, clock)
            IN /\ r.err = "Ok"
               /\ r.val = 0
               /\ r.w.reward_vault = reward_vault
               /\ r.w.user_stake[a].rewards = user_stake[a].rewards

\* An active stake is owed 0 and its claim succeeds, with an empty reward vault
\* and time elapsed since the stake was made
ZeroClaimWitness ==
    \E s \in USERS, p \in POOLS, a \in STAKE_ACCOUNTS :
        /\ OwnActiveStake(World, s, p, a)
        /\ OwedAt(World, p, a, clock) = 0
        /\ reward_vault[p] = 0
        /\ clock > user_stake[a].stake_time
        /\ ClaimRewardsTx(World, s, p, a, clock).err = "Ok"

\* Everything that belongs to pool q: its record, its vaults, its stake records
PoolState(w, q) ==
    [pool |-> w.pool[q], stake_vault |-> w.stake_vault[q],
     reward_vault |-> w.reward_vault[q],
     user_stake |-> [a \in {x \in STAKE_ACCOUNTS : x[1] = q \/ w.user_stake[x].pool = q}
                        |-> w.user_stake[a]]]

\* A call on one pool leaves everything of every other pool as it was
OtherPoolsUntouched ==
    \A p \in POOLS : \A c \in CallsOn(p) : \A q \in POOLS \ {p} :
        PoolState(Run(World, c, clock), q) = PoolState(World, q)

\* A stake record of another pool is refused by unstake and claim_rewards
ForeignStakeRefused ==
    \A p \in POOLS : \A c \in CallsOn(p) :
        (/\ c.op \in {"unstake", "claim_rewards"}
         /\ user_stake[c.user_stake].initialized
         /\ user_stake[c.user_stake].pool # p) => Exec(World, c, clock).err # "Ok"

\* The calls c and d made in both orders at time t, rc and rd being their
\* results on w. same: each of c and d succeeds, or fails, whether it is made
\* first or second; commute: either order leaves the same accounts. After a
\* call that failed the accounts are those of w, and the result of the other
\* call is the one it has on w.
BothOrders(w, c, d, rc, rd, t) ==
    LET wc == Commit(w, rc)
        wd == Commit(w, rd)
        rcd == IF rc.err = "Ok" THEN Exec(wc, d, t) ELSE rd
        rdc == IF rd.err = "Ok" THEN Exec(wd, c, t) ELSE rc
    IN [same |-> /\ (rc.err = "Ok") = (rdc.err = "Ok")
                 /\ (rd.err = "Ok") = (rcd.err = "Ok"),
        commute |-> Commit(wc, rcd) = Commit(wd, rdc)]

Commute(w, c, d, t) == BothOrders(w, c, d, Exec(w, c, t), Exec(w, d, t), t).commute

SameOutcome(w, c, d, t) == BothOrders(w, c, d, Exec(w, c, t), Exec(w, d, t), t).same

\* The calls whose vault accounts are those of their pool and whose amount,
\* for a stake, is a valid one
WellFormedCallsOn(p) ==
    {c \in CallsOn(p) : /\ c.stake_vault = p
                        /\ c.reward_vault = p
                        /\ c.op = "stake" => is_valid_stake_amount(c.amount)}

\* C17 as claimed: a call on pool P changes nothing of pool Q, a stake record
\* of Q is refused on P, and any two calls on different pools commute.
PoolIndependenceCommutes ==
    /\ OtherPoolsUntouched
    /\ ForeignStakeRefused
    /\ \A p \in POOLS, q \in POOLS : p < q =>
           \A c \in WellFormedCallsOn(p), d \in WellFormedCallsOn(q) :
               Commute(World, c, d, clock)

\* C17 as the code has it: a call on pool P changes nothing of pool Q, a stake
\* record of Q is refused on P, and two calls on different pools commute when
\* each succeeds, or fails, whichever comes first, which is always so for calls
\* of different signers.
PoolIndependence ==
    /\ OtherPoolsUntouched
    /\ ForeignStakeRefused
    /\ LET first == [c \in UNION {WellFormedCallsOn(p) : p \in POOLS} |->
                        Exec(World, c, clock)]
       IN \A p \in POOLS, q \in POOLS : p < q =>
              \A c \in WellFormedCallsOn(p), d \in WellFormedCallsOn(q) :
                  LET o == BothOrders(World, c, d, first[c], first[d], clock)
                  IN /\ c.signer # d.signer => o.same
                     /\ o.same => o.commute

\* Both pools hold an active stake of the same participant; that participant's
\* unstake from one pool and claim from the other both succeed in either order,
\* and the stake record of the one pool is refused on the other
PoolIndependenceWitness ==
    \E p \in POOLS, q \in POOLS, s \in USERS :
        /\ p # q
        /\ OwnActiveStake(World, s, p, <<p, s>>)
        /\ OwnActiveStake(World, s, q, <<q, s>>)
        /\ LET c == Call("unstake", s, p, <<p, s>>, p, p, 0)
               d == Call("claim_rewards", s, q, <<q, s>>, q, q, 0)
               foreign == [c EXCEPT !.user_stake = <<q, s>>]
           IN /\ Exec(World, c, clock).err = "Ok"
              /\ Exec(World, d, clock).err = "Ok"
              /\ Exec(World, d, clock).val > 0
              /\ SameOutcome(World, c, d, clock)
              /\ Exec(World, foreign, clock).err = "InvalidAccount"
              /\ stake_vault[p] >= user_stake[<<q, s>>].amount

AfterUnstake(errors) ==
    \A s \in USERS, p \in POOLS, a \in STAKE_ACCOUNTS :
        LET r == UnstakeTx(World, s, p, a, clock)
        IN r.err = "Ok" =>
               \A t \in clock..MaxTime :
                   LET claim == ClaimRewardsTx(r.w, s, p, a, t)
                       again == UnstakeTx(r.w, s, p, a, t)
                   IN /\ claim.err \in errors
                      /\ again.err \in errors
                      /\ Commit(r.w, claim) = r.w
                      /\ Commit(r.w, again) = r.w

\* What they return for as long as the participant has no stake account in
\* the pool
WithoutStakeAccount(errors) ==
    \A u \in USERS, p \in POOLS :
        (pool[p].initialized /\ ~user_stake[<<p, u>>].initialized) =>
            /\ ClaimRewardsTx(World, u, p, <<p, u>>, clock).err \in errors
            /\ UnstakeTx(World, u, p, <<p, u>>, clock).err \in errors

\* C21 as claimed: after a successful unstake, every claim_rewards and every
\* second unstake by the participant on the pool fails with the
\* no-active-stake error and pays nothing, until they stake again.
ClaimAfterUnstakeNoActiveStake == AfterUnstake({"NoActiveStake", "InactiveStake"})

\* C21 as the code has it: they fail because the stake account no longer
\* exists (it is closed by the unstake), and pay nothing.
ClaimAfterUnstakeRejected ==
    /\ AfterUnstake({"AccountNotInitialized"})
    /\ WithoutStakeAccount({"AccountNotInitialized"})

\* An unstake that pays principal and a reward succeeds
ClaimAfterUnstakeWitness ==
    \E s \in USERS, p \in POOLS, a \in STAKE_ACCOUNTS :
        LET r == UnstakeTx(World, s, p, a, clock)
        IN /\ r.err = "Ok"
           /\ r.val[1] > 0
           /\ r.val[2] > 0
           /\ ClaimRewardsTx(r.w, s, p, a, clock).err # "Ok"

\* C22: when a pool with total_staked = 0 is settled at the time now, by
\* update_pool or as the first step of stake, the accumulator is unchanged and
\* last_update_time becomes now; the stake that follows is owed, at every later
\* time, what it would be owed had the pool been settled just before it, and
\* no more than the rate times the time since it was made.
EmptyPoolSettlement ==
    \A p \in POOLS :
        (pool[p].initialized /\ pool[p].total_staked = 0) =>
            LET settled == update_pool_rewards(World, p, clock)
                updated == UpdatePoolTx(World, p, clock)
            IN /\ settled.pool[p].reward_per_token_stored = pool[p].reward_per_token_stored
               /\ settled.pool[p].last_update_time = clock
               /\ updated.err = "Ok"
               /\ updated.w.pool[p].reward_per_token_stored = pool[p].reward_per_token_stored
               /\ updated.w.pool[p].last_update_time = clock
               /\ \A u \in USERS, amount \in STAKE_AMOUNTS :
                      LET r == StakeTx(World, u, p, amount, clock)
                          after == StakeTx(updated.w, u, p, amount, clock)
                      IN r.err = "Ok" =>
                             /\ r.w.pool[p].reward_per_token_stored =
                                    pool[p].reward_per_token_stored
                             /\ r.w.pool[p].last_update_time = clock
                             /\ after.err = "Ok"
                             /\ \A t \in clock..MaxTime :
                                    /\ OwedAt(r.w, p, <<p, u>>, t) =
                                           OwedAt(after.w, p, <<p, u>>, t)
                                    /\ OwedAt(r.w, p, <<p, u>>, t) <=
                                           pool[p].reward_rate * (t - clock)

\* A pool that has paid rewards before is empty and was last settled earlier;
\* a stake succeeds now
EmptyPoolSettlementWitness ==
    \E p \in POOLS, u \in USERS, amount \in STAKE_AMOUNTS :
        /\ pool[p].initialized
        /\ pool[p].total_staked = 0
        /\ pool[p].reward_per_token_stored > 0
        /\ pool[p].last_update_time < clock
        /\ clock < MaxTime
        /\ StakeTx(World, u, p, amount, clock).err = "Ok"

\* C23: a successful first stake of amount A at the time now creates a stake
\* with amount A, checkpoint equal to the pool accumulator as settled at now,
\* unclaimed rewards 0, stake_time = now, unlock_time = now + lock_duration
\* and is_active; the staker is owed nothing at now, and a claim_rewards at
\* the same timestamp succeeds and pays 0.
NewlyCreatedStake ==
    \A u \in USERS, p \in POOLS, amount \in STAKE_AMOUNTS :
        LET r == StakeTx(World, u, p, amount, clock)
            created == r.w.user_stake[<<p, u>>]
            claim == ClaimRewardsTx(r.w, u, p, <<p, u>>, clock)
        IN r.err = "Ok" =>
               /\ created.initialized
               /\ created.user = u
               /\ created.pool = p
               /\ created.amount = amount
               /\ created.reward_per_token_paid =
                      calculate_reward_per_token(pool[p], clock)
               /\ created.reward_per_token_paid = r.w.pool[p].reward_per_token_stored
               /\ created.rewards = 0
               /\ created.stake_time = clock
               /\ created.unlock_time = clock + pool[p].lock_duration
               /\ created.is_active
               /\ OwedAt(r.w, p, <<p, u>>, clock) = 0
               /\ claim.err = "Ok"
               /\ claim.val = 0
               /\ claim.w.reward_vault = r.w.reward_vault

\* A stake succeeds in a pool that holds another stake, and the settlement
\* made by the stake moves an accumulator that had moved before
NewlyCreatedStakeWitness ==
    \E u \in USERS, p \in POOLS, amount \in STAKE_AMOUNTS :
        /\ StakeTx(World, u, p, amount, clock).err = "Ok"
        /\ pool[p].total_staked > 0
        /\ pool[p].reward_per_token_stored > 0
        /\ calculate_reward_per_token(pool[p], clock) > pool[p].reward_per_token_stored
        /\ reward_vault[p] > 0

\* C24: update_pool takes no signature, so it returns the same whoever calls
\* it; a successful call changes pool.reward_per_token_stored and
\* pool.last_update_time and nothing else: total_staked, reward_rate,
\* lock_duration, is_active, every stake record, both vaults and every token
\* balance stay as they were.
UpdatePoolFrame ==
    \A p \in POOLS :
        LET r == UpdatePoolTx(World, p, clock)
        IN /\ \A caller \in USERS :
                  Exec(World, Call("update_pool", caller, p, <<p, caller>>, p, p, 0), clock) = r
           /\ r.err = "Ok" =>
                  r.w = [World EXCEPT
                            !.pool[p].reward_per_token_stored =
                                r.w.pool[p].reward_per_token_stored,
                            !.pool[p].last_update_time = r.w.pool[p].last_update_time]

\* update_pool succeeds and moves the accumulator of a pool with stakes and
\* with tokens in both vaults
UpdatePoolFrameWitness ==
    \E p \in POOLS :
        LET r == UpdatePoolTx(World, p, clock)
        IN /\ r.err = "Ok"
           /\ r.w.pool[p].reward_per_token_stored > pool[p].reward_per_token_stored
           /\ pool[p].total_staked > 0
           /\ stake_vault[p] > 0
           /\ reward_vault[p] > 0

\* The accounts with the is_active flag of pool p cleared. No instruction of
\* the program clears the flag; this is the pool account as the handlers
\* would find it if one did.
Deactivated(w, p) == [w EXCEPT !.pool[p].is_active = FALSE]

\* update_pool on the empty pool p returns no error and leaves the accumulator
EmptyPoolUpdateIsNoOp ==
    \A p \in POOLS :
        (pool[p].initialized /\ pool[p].total_staked = 0) =>
            LET r == UpdatePoolTx(World, p, clock)
            IN /\ r.err = "Ok"
               /\ r.w.pool[p].reward_per_token_stored = pool[p].reward_per_token_stored

DeactivationBlocksOnlyStake ==
    \A p \in POOLS :
        pool[p].initialized =>
            LET off == Deactivated(World, p)
            IN /\ \A u \in USERS, amount \in STAKE_AMOUNTS :
                      LET r == StakeTx(off, u, p, amount, clock)
                      IN /\ ~user_stake[<<p, u>>].initialized => r.err = "PoolNotActive"
                         /\ r.err \in {"PoolNotActive", "AccountAlreadyInUse"}
                         /\ r.w = off
               /\ \A s \in USERS, a \in STAKE_ACCOUNTS :
                      LET on_unstake == UnstakeTx(World, s, p, a, clock)
                          off_unstake == UnstakeTx(off, s, p, a, clock)
                          on_claim == ClaimRewardsTx(World, s, p, a, clock)
                          off_claim == ClaimRewardsTx(off, s, p, a, clock)
                      IN /\ off_unstake.err = on_unstake.err
                         /\ off_unstake.val = on_unstake.val
                         /\ Commit(off, off_unstake)
                                = Deactivated(Commit(World, on_unstake), p)
                         /\ off_claim.err = on_claim.err
                         /\ off_claim.val = on_claim.val
                         /\ Commit(off, off_claim) = Deactivated(Commit(World, on_claim), p)

\* On the active pool a stake would succeed, an unstake pays principal and
\* reward, and a claim pays a reward
DeactivationWitness ==
    \E p \in POOLS, u \in USERS, s \in USERS, amount \in STAKE_AMOUNTS :
        /\ StakeTx(World, u, p, amount, clock).err = "Ok"
        /\ LET r == UnstakeTx(World, s, p, <<p, s>>, clock)
           IN r.err = "Ok" /\ r.val[1] > 0 /\ r.val[2] > 0
        /\ LET c == ClaimRewardsTx(World, s, p, <<p, s>>, clock)
           IN c.err = "Ok" /\ c.val > 0
        /\ UnstakeTx(Deactivated(World, p), s, p, <<p, s>>, clock).err = "Ok"

\* The token accounts that receive a payout are passed by the caller and are
\* constrained to be owned by the signer; the model keeps one token account
\* per user, so a receiving account is named by its owner.
TokenAccountOwner(owner, s) ==
    IF owner # s THEN "InvalidTokenAccountOwner" ELSE "Ok"

UnstakeTo(w, s, p, a, stake_to, reward_to, current_time) ==
    LET c == UnstakeAccounts(w, s, p, a)
    IN IF c # "Ok" THEN Return(c, w, <<0, 0>>)
       ELSE IF TokenAccountOwner(stake_to, s) # "Ok"
       THEN Return(TokenAccountOwner(stake_to, s), w, <<0, 0>>)
       ELSE IF TokenAccountOwner(reward_to, s) # "Ok"
       THEN Return(TokenAccountOwner(reward_to, s), w, <<0, 0>>)
       ELSE UnstakeTx(w, s, p, a, current_time)

ClaimRewardsTo(w, s, p, a, reward_to, current_time) ==
    LET c == ClaimRewardsAccounts(w, s, p, a)
    IN IF c # "Ok" THEN Return(c, w, 0)
       ELSE IF TokenAccountOwner(reward_to, s) # "Ok"
       THEN Return(TokenAccountOwner(reward_to, s), w, 0)
       ELSE ClaimRewardsTx(w, s, p, a, current_time)

\* C27: unstake and claim_rewards succeed only for the signer that the stake
\* record names as user and for the pool that it names as pool; otherwise they
\* fail and change nothing. The accounts that receive principal and reward
\* are owned by the stake's user, and no other user's balance changes.
OnlyOwnerMovesStake ==
    \A s \in USERS, p \in POOLS, a \in STAKE_ACCOUNTS :
        LET owner == user_stake[a].user
            rightful == /\ user_stake[a].initialized
                        /\ owner = s
                        /\ user_stake[a].pool = p
        IN /\ \A stake_to \in USERS, reward_to \in USERS :
                  LET r == UnstakeTo(World, s, p, a, stake_to, reward_to, clock)
                  IN /\ r.err = "Ok" =>
                            /\ rightful
                            /\ stake_to = owner /\ reward_to = owner
                            /\ r.w.user_token[owner] = user_token[owner] + r.val[1]
                            /\ \A v \in USERS \ {owner} :
                                   r.w.user_token[v] = user_token[v]
                     /\ ~rightful => r.err # "Ok" /\ Commit(World, r) = World
                     /\ (stake_to # s \/ reward_to # s) =>
                            r.err # "Ok" /\ Commit(World, r) = World
           /\ \A reward_to \in USERS :
                  LET r == ClaimRewardsTo(World, s, p, a, reward_to, clock)
                  IN /\ r.err = "Ok" =>
                            /\ rightful
                            /\ reward_to = owner
                            /\ r.w.user_token = user_token
                     /\ ~rightful => r.err # "Ok" /\ Commit(World, r) = World
                     /\ reward_to # s => r.err # "Ok" /\ Commit(World, r) = World

\* The owner's unstake and claim pay out, while another signer, another
\* initialized pool and another user's receiving account are each refused
OnlyOwnerWitness ==
    \E s \in USERS, o \in USERS, p \in POOLS, q \in POOLS :
        LET a == <<p, s>>
        IN /\ o # s /\ q # p
           /\ pool[q].initialized
           /\ LET r == UnstakeTo(World, s, p, a, s, s, clock)
              IN r.err = "Ok" /\ r.val[1] > 0 /\ r.val[2] > 0
           /\ LET c == ClaimRewardsTo(World, s, p, a, s, clock)
              IN c.err = "Ok" /\ c.val > 0
           /\ UnstakeTo(World, o, p, a, o, o, clock).err = "InvalidAccount"
           /\ UnstakeTo(World, s, q, a, s, s, clock).err = "InvalidAccount"
           /\ UnstakeTo(World, s, p, a, o, s, clock).err = "InvalidTokenAccountOwner"
           /\ ClaimRewardsTo(World, o, p, a, o, clock).err = "InvalidAccount"
           /\ ClaimRewardsTo(World, s, q, a, s, clock).err = "InvalidAccount"
           /\ ClaimRewardsTo(World, s, p, a, o, clock).err = "InvalidTokenAccountOwner"

\* C28: a stake is created with unlock_time = stake_time + pool.lock_duration,
\* and no call (claim_rewards, update_pool, a stake or unstake of anybody, a
\* repeated stake of the owner), now or later, changes stake_time or
\* unlock_time of a stake that stays active.
LockWindowFixed ==
    /\ \A a \in STAKE_ACCOUNTS :
           user_stake[a].initialized =>
               /\ user_stake[a].is_active
               /\ user_stake[a].stake_time <= clock
               /\ user_stake[a].unlock_time
                      = user_stake[a].stake_time + pool[user_stake[a].pool].lock_duration
    /\ \A p \in POOLS : \A c \in CallsOn(p) : \A t \in clock..MaxTime :
           LET after == Run(World, c, t)
           IN \A a \in STAKE_ACCOUNTS :
                  /\ (user_stake[a].initialized /\ after.user_stake[a].initialized) =>
                         /\ after.user_stake[a].stake_time = user_stake[a].stake_time
                         /\ after.user_stake[a].unlock_time = user_stake[a].unlock_time
                  /\ (~user_stake[a].initialized /\ after.user_stake[a].initialized) =>
                         /\ c.op = "stake"
                         /\ after.user_stake[a].stake_time = t
                         /\ after.user_stake[a].unlock_time
                                = t + pool[p].lock_duration
                  /\ after.pool[p].lock_duration = pool[p].lock_duration

\* A stake made earlier is active while its owner claims a reward, the pool
\* is settled, another participant unstakes and stakes again, and the
\* owner's repeated stake is refused
LockWindowWitness ==
    \E p \in POOLS, s \in USERS, o \in USERS :
        /\ s # o
        /\ user_stake[<<p, s>>].initialized
        /\ user_stake[<<p, s>>].stake_time < clock
        /\ LET c == ClaimRewardsTx(World, s, p, <<p, s>>, clock)
           IN c.err = "Ok" /\ c.val > 0
        /\ UpdatePoolTx(World, p, clock).err = "Ok"
        /\ LET r == UnstakeTx(World, o, p, <<p, o>>, clock)
           IN /\ r.err = "Ok"
              /\ StakeTx(r.w, o, p, MIN_STAKE_AMOUNT, clock).err = "Ok"
        /\ StakeTx(World, s, p, MIN_STAKE_AMOUNT, clock).err = "AccountAlreadyInUse"

\* C29: the stake vault of a pool holds at least pool.total_staked, which is
\* at least the amount of every stake of the pool, so no unstake, now or
\* later, fails with InsufficientTokenBalance.
StakeVaultCoversLedger ==
    \A p \in POOLS :
        pool[p].initialized =>
            /\ stake_vault[p] >= pool[p].total_staked
            /\ \A a \in STAKE_ACCOUNTS :
                   (user_stake[a].initialized /\ user_stake[a].pool = p) =>
                       pool[p].total_staked >= user_stake[a].amount
            /\ \A s \in USERS, a \in STAKE_ACCOUNTS, t \in clock..MaxTime :
                   LET r == UnstakeTx(World, s, p, a, t)
                   IN /\ r.err # "InsufficientTokenBalance"
                      /\ r.err = "Ok" =>
                             r.w.stake_vault[p] >= r.w.pool[p].total_staked

\* Two stakes are in the vault and one of them is withdrawn in full
StakeVaultCoversLedgerWitness ==
    \E p \in POOLS, s \in USERS, o \in USERS :
        /\ s # o
        /\ user_stake[<<p, s>>].initialized
        /\ user_stake[<<p, o>>].initialized
        /\ pool[p].total_staked = user_stake[<<p, s>>].amount + user_stake[<<p, o>>].amount
        /\ LET r == UnstakeTx(World, s, p, <<p, s>>, clock)
           IN /\ r.err = "Ok"
              /\ r.val[1] = user_stake[<<p, s>>].amount
              /\ r.w.stake_vault[p] = user_stake[<<p, o>>].amount
              /\ r.w.stake_vault[p] > 0

\* The error the stake validation is to report for a pool, a balance and an
\* amount, "Ok" when it is to report none
StakeViolation(w, p, u, amount) ==
    IF ~w.pool[p].is_active THEN "PoolNotActive"
    ELSE IF amount < MIN_STAKE_AMOUNT THEN "StakeAmountTooSmall"
    ELSE IF amount > MAX_STAKE_AMOUNT THEN "StakeAmountTooLarge"
    ELSE IF w.user_token[u] < amount THEN "InsufficientBalance"
    ELSE "Ok"

\* stake by u on the accounts w reports the first violation and writes nothing
StakeValidated(w, p, u, amount) ==
    LET r == StakeTx(w, u, p, amount, clock)
    IN /\ r.err = "Ok" => StakeViolation(w, p, u, amount) = "Ok"
       /\ StakeViolation(w, p, u, amount) # "Ok" =>
              /\ r.err = StakeViolation(w, p, u, amount)
              /\ r.w = w

\* C30 as stated: every signer's stake reports the first violation among pool
\* inactive, amount too small or too large, balance insufficient
StakeValidationAnySigner ==
    \A p \in POOLS :
        pool[p].initialized =>
            \A u \in USERS, amount \in STAKE_AMOUNTS :
                /\ StakeValidated(World, p, u, amount)
                /\ StakeValidated(Deactivated(World, p), p, u, amount)

\* C30: the stake of a signer without a stake record in the pool succeeds
\* only if the pool is active, the amount is within MIN_STAKE_AMOUNT and
\* MAX_STAKE_AMOUNT and the balance covers it; the first violation in this
\* order is the error, and nothing is written. A signer with a stake record
\* in the pool is refused whatever the amount, and nothing is written.
StakeValidation ==
    \A p \in POOLS :
        pool[p].initialized =>
            \A u \in USERS, amount \in STAKE_AMOUNTS :
                IF ~user_stake[<<p, u>>].initialized
                THEN /\ StakeValidated(World, p, u, amount)
                     /\ StakeValidated(Deactivated(World, p), p, u, amount)
                ELSE /\ StakeTx(World, u, p, amount, clock)
                            = Return("AccountAlreadyInUse", World, 0)
                     /\ LET r == StakeTx(Deactivated(World, p), u, p, amount, clock)
                        IN /\ r.err \in {"PoolNotActive", "AccountAlreadyInUse"}
                           /\ r.w = Deactivated(World, p)

\* One signer without a stake record has spent part of the balance: the
\* amounts below, above and within the bounds are refused or accepted in
\* turn, and the other signer's repeated stake is refused
StakeValidationWitness ==
    \E p \in POOLS, u \in USERS, o \in USERS :
        /\ u # o
        /\ ~user_stake[<<p, u>>].initialized
        /\ user_stake[<<p, o>>].initialized
        /\ user_token[u] = InitialBalance - SpendAmount
        /\ StakeTx(World, u, p, MIN_STAKE_AMOUNT - 1, clock).err = "StakeAmountTooSmall"
        /\ StakeTx(World, u, p, MAX_STAKE_AMOUNT + 1, clock).err = "StakeAmountTooLarge"
        /\ StakeTx(World, u, p, MAX_STAKE_AMOUNT, clock).err = "InsufficientBalance"
        /\ StakeTx(World, u, p, MIN_STAKE_AMOUNT, clock).err = "Ok"
        /\ StakeTx(Deactivated(World, p), u, p, MIN_STAKE_AMOUNT, clock).err
               = "PoolNotActive"
        /\ StakeTx(World, o, p, MIN_STAKE_AMOUNT, clock).err = "AccountAlreadyInUse"

\* C31: initialize_pool of a pool account that is not yet in use succeeds
\* exactly when reward_rate and lock_duration are within their bounds; the
\* pool then starts empty, with accumulator 0, last_update_time = now and
\* is_active = true, and a refused call leaves no pool. A pool account in
\* use is not created again.
PoolCreationValidation ==
    \A p \in POOLS, reward_rate \in (MIN_REWARD_RATE - 1)..(MAX_REWARD_RATE + 1),
       lock_duration \in LOCK_DURATIONS :
        LET r == InitializePoolTx(World, p, reward_rate, lock_duration, clock)
            valid == /\ MIN_REWARD_RATE <= reward_rate /\ reward_rate <= MAX_REWARD_RATE
                     /\ MIN_LOCK_DURATION <= lock_duration
                     /\ lock_duration <= MAX_LOCK_DURATION
        IN IF pool[p].initialized
           THEN r = Return("AccountAlreadyInUse", World, 0)
           ELSE /\ r.err = "Ok" <=> valid
                /\ r.err = "Ok" =>
                       /\ r.w.pool[p] = [initialized |-> TRUE, reward_rate |-> reward_rate,
                                         total_staked |-> 0, last_update_time |-> clock,
                                         reward_per_token_stored |-> 0,
                                         lock_duration |-> lock_duration,
                                         is_active |-> TRUE]
                       /\ r.w = [World EXCEPT !.pool[p] = r.w.pool[p]]
                /\ r.err # "Ok" =>
                       /\ r.err = IF is_valid_reward_rate(reward_rate)
                                  THEN "InvalidLockDuration" ELSE "InvalidRewardRate"
                       /\ r.w = World
                       /\ ~Commit(World, r).pool[p].initialized

\* One pool was created with parameters within the bounds, and on the account
\* of the other pool each bound of each parameter decides the outcome
PoolCreationWitness ==
    \E p \in POOLS, q \in POOLS :
        /\ pool[p].initialized /\ pool[p].is_active
        /\ pool[p].total_staked = 0 /\ pool[p].reward_per_token_stored = 0
        /\ pool[p].last_update_time = clock
        /\ ~pool[q].initialized
        /\ InitializePoolTx(World, q, MIN_REWARD_RATE, MAX_LOCK_DURATION, clock).err = "Ok"
        /\ InitializePoolTx(World, q, MAX_REWARD_RATE, MIN_LOCK_DURATION, clock).err = "Ok"
        /\ InitializePoolTx(World, q, MIN_REWARD_RATE - 1, MIN_LOCK_DURATION, clock).err
               = "InvalidRewardRate"
        /\ InitializePoolTx(World, q, MAX_REWARD_RATE + 1, MIN_LOCK_DURATION, clock).err
               = "InvalidRewardRate"
        /\ InitializePoolTx(World, q, MAX_REWARD_RATE, MIN_LOCK_DURATION - 1, clock).err
               = "InvalidLockDuration"
        /\ InitializePoolTx(World, q, MAX_REWARD_RATE, MAX_LOCK_DURATION + 1, clock).err
               = "InvalidLockDuration"

\* C32: the public helper calculate_pending_rewards returns the existing
\* rewards of the stake plus the amount newly accrued since its checkpoint,
\* the existing rewards counted once, and has_claimable_rewards tells whether
\* that total is positive.
PendingRewardQuery ==
    query.fn = "calculate_pending_rewards" =>
        LET reward_per_token == calculate_reward_per_token(query.pool, query.current_time)
            accrued == (query.user_stake.amount
                            * (reward_per_token - query.user_stake.reward_per_token_paid))
                           \div REWARD_PRECISION
            total == query.user_stake.rewards + accrued
        IN query.user_stake.reward_per_token_paid <= reward_per_token =>
               /\ query.result = total
               /\ query.has_claimable_rewards <=> total > 0

\* What the helper returns: the existing rewards are counted twice
PendingRewardQueryDoubleCounts ==
    query.fn = "calculate_pending_rewards" =>
        LET reward_per_token == calculate_reward_per_token(query.pool, query.current_time)
            accrued == (query.user_stake.amount
                            * (reward_per_token - query.user_stake.reward_per_token_paid))
                           \div REWARD_PRECISION
        IN query.user_stake.reward_per_token_paid <= reward_per_token =>
               query.result = 2 * query.user_stake.rewards + accrued

\* C33: for every APR percentage of test_apr_reward_rate_conversion the
\* conversion to a reward rate and back is within one of the percentage.
AprRoundTrip ==
    (query.fn = "apr_round_trip" /\ query.apr_percent \in {1, 5, 10, 25, 50, 100}) =>
        /\ query.back_to_apr >= query.apr_percent - 1
        /\ query.back_to_apr <= query.apr_percent + 1

\* What the conversions return for the six percentages
AprRoundTripValues ==
    query.fn = "apr_round_trip" =>
        /\ query.apr_percent = 1 => query.rate = 0 /\ query.back_to_apr = 0
        /\ query.apr_percent = 5 => query.rate = 1 /\ query.back_to_apr = 3
        /\ query.apr_percent = 10 => query.rate = 3 /\ query.back_to_apr = 9
        /\ query.apr_percent = 25 => query.rate = 7 /\ query.back_to_apr = 22
        /\ query.apr_percent = 50 => query.rate = 15 /\ query.back_to_apr = 47
        /\ query.apr_percent = 100 => query.rate = 31 /\ query.back_to_apr = 97

\* The accounts after the reward vault of p has received every unit that the
\* bound on deposits allows
FullyFunded(w, p) == [w EXCEPT !.reward_vault[p] = @ + (MaxFunding - reward_funded[p])]

\* C34: the signer seeds of the transfers out of the vaults are the seeds the
\* pool account was derived from, and therefore every active stake can be
\* unstaked by its owner once now >= unlock_time and the vaults are funded:
\* no principal stays in the stake vault for ever.
WithdrawalLiveness ==
    \A p \in POOLS :
        pool[p].initialized =>
            /\ vault_signer_seed(World, p) = pool_id_seed(p)
            /\ \A a \in STAKE_ACCOUNTS :
                   (user_stake[a].initialized /\ user_stake[a].pool = p) =>
                       \E t \in clock..(MaxTime + MAX_LOCK_DURATION + 1) :
                           /\ t >= user_stake[a].unlock_time
                           /\ OwedAt(World, p, a, t) <= FullyFunded(World, p).reward_vault[p] =>
                                  UnstakeTx(FullyFunded(World, p), user_stake[a].user, p, a, t).err
                                      = "Ok"

\* In a pool whose address does not begin with the bytes of its pool id no
\* unstake and no claim of a positive reward gets its transfer signed,
\* whatever the time and the funding: the principal stays in the vault
PrincipalStuck ==
    \A p \in POOLS :
        (pool[p].initialized /\ vault_signer_seed(World, p) # pool_id_seed(p)) =>
            \A a \in STAKE_ACCOUNTS :
                (user_stake[a].initialized /\ user_stake[a].pool = p) =>
                    /\ stake_vault[p] >= user_stake[a].amount
                    /\ \A t \in clock..MaxTime :
                           LET r == UnstakeTx(FullyFunded(World, p), user_stake[a].user,
                                              p, a, t)
                               c == ClaimRewardsTx(FullyFunded(World, p), user_stake[a].user,
                                                   p, a, t)
                           IN /\ r.err # "Ok"
                              /\ t >= user_stake[a].unlock_time => r.err = "UnauthorizedSigner"
                              /\ c.err = "Ok" => c.val = 0

\* The reward that accrued to the stake a since its checkpoint, by time t
NewlyAccrued(w, p, a, t) ==
    (w.user_stake[a].amount
         * (calculate_reward_per_token(w.pool[p], t) - w.user_stake[a].reward_per_token_paid))
        \div REWARD_PRECISION

\* C35: in every committed state the rewards field of every stake record is 0,
\* and it is 0 again after every call, so the sum rewards + pending (where
\* pending includes rewards) that claim_rewards and unstake pay, now or
\* later, is the newly accrued reward and no stored reward twice.
NoDoubleCounting ==
    /\ \A a \in STAKE_ACCOUNTS : user_stake[a].rewards = 0
    /\ \A p \in POOLS : \A c \in CallsOn(p) :
           LET after == Run(World, c, clock)
           IN \A a \in STAKE_ACCOUNTS : after.user_stake[a].rewards = 0
    /\ \A p \in POOLS, a \in STAKE_ACCOUNTS, t \in clock..MaxTime :
           OwnActiveStake(World, user_stake[a].user, p, a) =>
               LET s == user_stake[a].user
                   claim == ClaimRewardsTx(World, s, p, a, t)
                   final == UnstakeTx(World, s, p, a, t)
               IN /\ OwedAt(World, p, a, t) = NewlyAccrued(World, p, a, t)
                  /\ claim.err = "Ok" => claim.val = NewlyAccrued(World, p, a, t)
                  /\ final.err = "Ok" => final.val[2] = NewlyAccrued(World, p, a, t)

\* A stake that was paid a reward by an earlier claim is paid a reward by a
\* second claim and by an unstake
NoDoubleCountingWitness ==
    \E p \in POOLS, s \in USERS :
        LET a == <<p, s>>
        IN /\ OwnActiveStake(World, s, p, a)
           /\ user_stake[a].reward_per_token_paid > 0
           /\ reward_paid[p] > 0
           /\ LET claim == ClaimRewardsTx(World, s, p, a, clock)
                  final == UnstakeTx(World, s, p, a, clock)
              IN /\ claim.err = "Ok" /\ claim.val > 0
                 /\ final.err = "Ok" /\ final.val[2] > 0

\* The sum over the stake records in S of the reward owed at time t
SumOwed(w, p, S, t) ==
    IF S = {} THEN 0
    ELSE LET a == CHOOSE x \in S : TRUE
         IN OwedAt(w, p, a, t) + SumOwed(w, p, S \ {a}, t)

\* C36: what claim_rewards and unstake have paid out of a pool, plus what the
\* pool owes to its active stakes now, is at most reward_rate times the time
\* during which the pool had stakes.
EmissionBound ==
    \A p \in POOLS :
        pool[p].initialized =>
            reward_paid[p] + SumOwed(World, p, ActiveStakes(World, p), clock)
                <= pool[p].reward_rate * staked_time[p]

\* Rewards were paid, two stakes of different size are owed a reward, and
\* rounding has kept part of the emission in the pool
EmissionBoundWitness ==
    \E p \in POOLS :
        /\ reward_paid[p] > 0
        /\ \E a \in ActiveStakes(World, p), b \in ActiveStakes(World, p) :
               /\ user_stake[a].amount < user_stake[b].amount
               /\ OwedAt(World, p, b, clock) > 0
        /\ reward_paid[p] + SumOwed(World, p, ActiveStakes(World, p), clock)
               < pool[p].reward_rate * staked_time[p]

\* The calls that may be inserted between two claims of a stake of pool p:
\* update_pool by anyone, claim_rewards by a participant on the own stake
PathCalls(p) ==
    {Call("update_pool", s, p, <<p, s>>, p, p, 0) : s \in USERS}
    \cup {Call("claim_rewards", s, p, <<p, s>>, p, p, 0) : s \in USERS}

\* What the call c with result r pays to s
Received(c, r, s) ==
    IF c.op = "claim_rewards" /\ c.signer = s /\ r.err = "Ok" THEN r.val ELSE 0

\* The stake of s in pool p claims at t1 only, or after one or two calls
\* inserted after now and before t1 (every call paid out of a vault that
\* holds enough): the total received with the inserted calls is at most the total without them, and it is smaller by at most
\* slack(k) reward units, k the number of inserted calls
PathIndependenceWithin(slack(_)) ==
    \A p \in POOLS, s \in USERS :
        OwnActiveStake(World, s, p, <<p, s>>) =>
            \A t1 \in clock..MaxTime :
                LET a == <<p, s>>
                    direct == ClaimRewardsTx(World, s, p, a, t1)
                IN direct.err = "Ok" =>
                       \A c1 \in PathCalls(p), x1 \in (clock + 1)..(t1 - 1) :
                           LET r1 == Exec(World, c1, x1)
                               f1 == ClaimRewardsTx(r1.w, s, p, a, t1)
                               total1 == Received(c1, r1, s) + f1.val
                           IN r1.err = "Ok" =>
                                  /\ f1.err = "Ok" =>
                                         /\ total1 <= direct.val
                                         /\ direct.val - total1 <= slack(1)
                                  /\ \A c2 \in PathCalls(p), x2 \in x1..(t1 - 1) :
                                         LET r2 == Exec(r1.w, c2, x2)
                                             f2 == ClaimRewardsTx(r2.w, s, p, a, t1)
                                             total2 == Received(c1, r1, s)
                                                           + Received(c2, r2, s) + f2.val
                                         IN (r2.err = "Ok" /\ f2.err = "Ok") =>
                                                /\ total2 <= direct.val
                                                /\ direct.val - total2 <= slack(2)

OnePerCall(k) == k

OnePerClaim(k) == k + 1

\* C37 as stated: inserted calls never raise the total received and lower it
\* by at most one reward unit per inserted call
PathIndependenceOnePerCall == PathIndependenceWithin(OnePerCall)

\* C37: inserted calls never raise the total received, and k inserted calls
\* lower it by at most k + 1 reward units: every claim, the last one
\* included, cuts off the fraction of a unit
PathIndependence == PathIndependenceWithin(OnePerClaim)

\* One of two equal stakes receives 3 by one claim after three seconds and
\* nothing by three claims, one each second
PathIndependenceWitness ==
    \E p \in POOLS, s \in USERS :
        LET a == <<p, s>>
            c == Call("claim_rewards", s, p, a, p, p, 0)
            r1 == Exec(World, c, clock + 1)
            r2 == Exec(r1.w, c, clock + 2)
            f2 == ClaimRewardsTx(r2.w, s, p, a, clock + 3)
            direct == ClaimRewardsTx(World, s, p, a, clock + 3)
        IN /\ OwnActiveStake(World, s, p, a)
           /\ clock + 3 <= MaxTime
           /\ direct.err = "Ok" /\ r1.err = "Ok" /\ r2.err = "Ok" /\ f2.err = "Ok"
           /\ direct.val = r1.val + r2.val + f2.val + 3
           /\ direct.val > 0

\* C38: the checkpoint of every stake is at most the accumulator of its pool,
\* now and as settled at any clock value, and stays so after every call: the
\* subtraction in calculate_pending_rewards does not underflow.
CheckpointNotAhead ==
    /\ \A a \in STAKE_ACCOUNTS :
           user_stake[a].initialized =>
               LET p == user_stake[a].pool
               IN /\ user_stake[a].reward_per_token_paid <= pool[p].reward_per_token_stored
                  /\ \A t \in CLOCK_TIMES \cup (0..MaxTime) :
                         /\ user_stake[a].reward_per_token_paid
                                <= calculate_reward_per_token(pool[p], t)
                         /\ checked_sub(update_pool_rewards(World, p, t)
                                            .pool[p].reward_per_token_stored,
                                        user_stake[a].reward_per_token_paid) # None
    /\ \A p \in POOLS : \A c \in CallsOn(p) :
           LET after == Run(World, c, clock)
           IN \A a \in STAKE_ACCOUNTS :
                  after.user_stake[a].initialized =>
                      after.user_stake[a].reward_per_token_paid
                          <= after.pool[after.user_stake[a].pool].reward_per_token_stored

\* A stake created after the accumulator had grown has claimed at a later
\* accumulator, and the pool has accrued since
CheckpointNotAheadWitness ==
    \E a \in STAKE_ACCOUNTS, b \in STAKE_ACCOUNTS :
        /\ user_stake[a].initialized /\ user_stake[b].initialized
        /\ user_stake[a].pool = user_stake[b].pool
        /\ 0 < user_stake[b].reward_per_token_paid
        /\ user_stake[b].reward_per_token_paid < user_stake[a].reward_per_token_paid
        /\ user_stake[a].reward_per_token_paid
               < calculate_reward_per_token(pool[user_stake[a].pool], clock)

\* C39: after a participant's unstake the participant can stake again in the
\* pool, then or later; the new record has rewards 0, the accumulator of the
\* new stake time as checkpoint and unlock_time = new stake time +
\* lock_duration, is owed nothing at that time, and is the record that the
\* same stake creates when the closed record's fields were different.
RestakeStartsFresh ==
    \A s \in USERS, p \in POOLS :
        LET a == <<p, s>>
            closed == UnstakeTx(World, s, p, a, clock)
        IN closed.err = "Ok" =>
               /\ closed.w.user_stake[a] = NoStake
               /\ \A t \in clock..MaxTime, amount \in MIN_STAKE_AMOUNT..MAX_STAKE_AMOUNT :
                      LET r == StakeTx(closed.w, s, p, amount, t)
                      IN /\ r.err = "Ok"
                         /\ r.w.user_stake[a] =
                                [initialized |-> TRUE, user |-> s, pool |-> p,
                                 amount |-> amount,
                                 reward_per_token_paid |->
                                     calculate_reward_per_token(closed.w.pool[p], t),
                                 rewards |-> 0, stake_time |-> t,
                                 unlock_time |-> t + pool[p].lock_duration,
                                 is_active |-> TRUE]
                         /\ r.w.user_stake[a].reward_per_token_paid
                                = r.w.pool[p].reward_per_token_stored
                         /\ OwedAt(r.w, p, a, t) = 0
                         /\ \A t2 \in t..MaxTime :
                                OwedAt(r.w, p, a, t2) = NewlyAccrued(r.w, p, a, t2)

\* A stake that earned a reward is withdrawn while another stake stays, and
\* its owner stakes again a second later, when the accumulator has grown
RestakeWitness ==
    \E s \in USERS, p \in POOLS :
        LET a == <<p, s>>
            closed == UnstakeTx(World, s, p, a, clock)
            r == StakeTx(closed.w, s, p, MAX_STAKE_AMOUNT, clock + 1)
        IN /\ closed.err = "Ok" /\ closed.val[2] > 0
           /\ closed.w.pool[p].total_staked > 0
           /\ clock + 1 <= MaxTime
           /\ r.err = "Ok"
           /\ r.w.user_stake[a].reward_per_token_paid > user_stake[a].reward_per_token_paid
           /\ r.w.user_stake[a].reward_per_token_paid > closed.w.pool[p].reward_per_token_stored
           /\ r.w.user_stake[a].unlock_time > user_stake[a].unlock_time

\* C40: a stake, unstake or claim_rewards call signed by one participant,
\* whatever accounts it names, and every update_pool call, now or later,
\* leaves the stake records of every other participant as they are.
ParticipantFrame ==
    \A p \in POOLS : \A c \in CallsOn(p) : \A t \in clock..MaxTime :
        LET after == Run(World, c, t)
        IN \A a \in STAKE_ACCOUNTS :
               (c.op = "update_pool" \/ a[2] # c.signer) =>
                   after.user_stake[a] = user_stake[a]

\* Both participants have a stake, and a stake's owner can claim a reward
\* and unstake, which changes the owner's own record
ParticipantFrameWitness ==
    \E p \in POOLS, s \in USERS, o \in USERS :
        /\ s # o
        /\ OwnActiveStake(World, s, p, <<p, s>>)
        /\ OwnActiveStake(World, o, p, <<p, o>>)
        /\ LET claim == ClaimRewardsTx(World, s, p, <<p, s>>, clock)
               final == UnstakeTx(World, s, p, <<p, s>>, clock)
           IN /\ claim.err = "Ok" /\ claim.val > 0
              /\ claim.w.user_stake[<<p, s>>] # user_stake[<<p, s>>]
              /\ final.err = "Ok"
              /\ final.w.user_stake[<<p, s>>] # user_stake[<<p, s>>]
        /\ UpdatePoolTx(World, p, clock).err = "Ok"
        /\ UnstakeTx(World, s, p, <<p, o>>, clock).err = "InvalidAccount"

====
